---- MODULE Spec2Model ----
(***************************************************************************)
(* Model of cfwg-zt: the WireGuard configuration merge/render routines of  *)
(* package wireguard, Manager.UpdateConfig, the udm service client and the *)
(* reconciliation loop of runService.                                      *)
(*                                                                         *)
(* A Go string is modelled as a sequence of tokens; a token is a run of    *)
(* characters that the code never looks inside ("PrivateKey", "=", " ",    *)
(* "\n", a key value...).  "" is <<>> and + is \o.                          *)
(***************************************************************************)
EXTENDS Integers, Sequences, FiniteSets, TLC

VARIABLES
    \* runService, the loop goroutine
    pc,                   \* the statement the loop is at
    consecutiveFailures,  \* FailureState
    err,                  \* the error the last step of the cycle returned
    sleepMinutes,         \* the time.Sleep the loop is in, in minutes
    sleepLeft,            \* what is left of that sleep, in seconds
    wgConfig,             \* the *cloudflare.WireGuardConfig of the cycle
    \* Manager.UpdateConfig
    existingConfig,       \* its local existingConfig (= configData)
    hasExistingConfig,    \* its local hasExistingConfig
    targetAtCall,         \* the tunnel file as it was when the call began
    \* the file system
    configFile,           \* the tunnel file at WireGuard.ConfigPath
    backupFile,           \* the backup file of the current UpdateConfig call
    \* the host's service manager
    serviceState,         \* what systemctl is-active answers for the unit
    serviceAction,        \* the systemctl action the cycle has invoked
    \* mergeWithExistingConfig and buildWireGuardConfig applied on their own
    merged,               \* mergeWithExistingConfig(existingConfig, wgConfig)
    remerged,             \* mergeWithExistingConfig(merged, wgConfig)
    rendered,             \* buildWireGuardConfig(wgConfig)
    called,               \* which of them has been applied
    \* the configuration file of the program
    refreshIntervalMinutes, \* cfg.RefreshIntervalMinutes
    \* runService, the loop goroutine (continued)
    deviceToken,          \* the deviceToken of the cycle
    \* cloudflare.Client
    accessToken,          \* the cached device token
    tokenExpiresIn,       \* seconds from now to tokenExpiry, 0 once it is reached
    registration,         \* the answer to the registration call of the last
                          \* AuthenticateDevice, NoRegistration if it made none
    \* the timers of time.AfterFunc and the callbacks they started
    refreshTimers,
    \* signal handling
    sigs,                 \* the number of signals in the channel sigs
    done,                 \* the number of values in the channel done
    listener,             \* the statement the signal goroutine is at
    \* package config and the process
    cfg,                  \* the *config.Config LoadConfig has returned
    environ,              \* the command line, the environment variables and the
                          \* config files of the process
    exitCode,             \* the exit status of the process, "none" while it runs
    \* the file system (continued)
    configMode,           \* the permission bits of the tunnel file
    backupMode,           \* the permission bits of the backup file
    \* udm.Client and cloudflare.Client called by the status command
    cmdResult,            \* the result of `systemctl is-active`
    isRunning,            \* what isWireGuardRunning has returned for it
    deviceStatus          \* the answer to the request of GetDeviceStatus

loopVars == <<pc, consecutiveFailures, err, sleepMinutes, sleepLeft>>
callVars == <<existingConfig, hasExistingConfig, targetAtCall>>
fileVars == <<configFile, backupFile>>
serviceVars == <<serviceState, serviceAction>>
pureVars == <<merged, remerged, rendered, called>>
clientVars == <<accessToken, tokenExpiresIn, registration>>
signalVars == <<sigs, done, listener>>
hostVars == <<cfg, environ, exitCode, configMode, backupMode, cmdResult, isRunning, deviceStatus>>
otherVars == <<refreshIntervalMinutes, hostVars, deviceToken, clientVars, refreshTimers, signalVars>>
\* otherVars without the permission bits of the two files
processVars == <<refreshIntervalMinutes, cfg, environ, exitCode, cmdResult, isRunning, deviceStatus,
                 deviceToken, clientVars, refreshTimers, signalVars>>

vars == <<loopVars, wgConfig, callVars, fileVars, serviceVars, pureVars, otherVars>>

-----------------------------------------------------------------------------
(* Bounds *)

\* number of lines of the existing texts given to mergeWithExistingConfig
MaxLines == 3

\* the largest count of consecutive failures the head of the loop is entered with
MaxFailures == 20

\* the largest number of scheduled refreshes that have not ended
MaxTimers == 3

-----------------------------------------------------------------------------
(* Strings *)

NL == "\n"
SP == " "

\* a file of the file system: absent, or present with its content
NoFile == [exists |-> FALSE, content |-> <<>>]
File(content) == [exists |-> TRUE, content |-> content]

\* a Go error value: nil, or the step that returned it and why
NoError == [step |-> "nil", cause |-> ""]
Error(step, cause) == [step |-> step, cause |-> cause]

\* unicode.IsSpace, for the characters the model's texts can hold
IsSpace(c) == c \in {" ", "\t", "\n", "\r"}

Str(tok) == <<tok>>

RECURSIVE SplitAt(_, _, _, _)
SplitAt(s, i, cur, acc) ==
    IF i > Len(s) THEN Append(acc, cur)
    ELSE IF s[i] = NL THEN SplitAt(s, i + 1, <<>>, Append(acc, cur))
    ELSE SplitAt(s, i + 1, Append(cur, s[i]), acc)

\* strings.Split(s, "\n")
Split(s) == SplitAt(s, 1, <<>>, <<>>)

RECURSIVE TrimLeft(_)
TrimLeft(s) ==
    IF s # <<>> /\ IsSpace(Head(s)) THEN TrimLeft(Tail(s)) ELSE s

RECURSIVE TrimRight(_)
TrimRight(s) ==
    IF s # <<>> /\ IsSpace(s[Len(s)]) THEN TrimRight(SubSeq(s, 1, Len(s) - 1)) ELSE s

\* strings.TrimSpace
TrimSpace(s) == TrimRight(TrimLeft(s))

\* strings.HasPrefix
HasPrefix(s, prefix) ==
    Len(s) >= Len(prefix) /\ SubSeq(s, 1, Len(prefix)) = prefix

\* strings.Contains
Contains(s, substr) ==
    \E i \in 1..(Len(s) - Len(substr) + 1) : SubSeq(s, i, i + Len(substr) - 1) = substr

\* fmt's %d
FormatInt(n) == Str(ToString(n))

RECURSIVE JoinFrom(_, _, _)
JoinFrom(list, i, sep) ==
    IF i > Len(list) THEN <<>>
    ELSE (IF i > 1 THEN sep ELSE <<>>) \o list[i] \o JoinFrom(list, i + 1, sep)

\* {{ range $index, $x := list }}{{if $index}}, {{end}}{{ $x }}{{end}}
RangeCommaList(list) == JoinFrom(list, 1, <<",", SP>>)

\* "Key = " as the code writes it
KeyEq(key) == <<key, SP, "=", SP>>

-----------------------------------------------------------------------------
(* package wireguard: buildWireGuardConfig and mergeWithExistingConfig *)

missingRequiredFields_NoPublicKey(c) ==
    c.PrivateKey = <<>> \/ c.PeerPublicKey = <<>> \/ c.Endpoint = <<>>

\* the validation at the head of buildWireGuardConfig
missingRequiredFields(c) ==
    c.PrivateKey = <<>> \/ c.PublicKey = <<>> \/ c.PeerPublicKey = <<>> \/ c.Endpoint = <<>>

\* The template of buildWireGuardConfig, executed on c.  "{{-" trims the
\* newline in front of the optional DNS and PresharedKey lines.
buildWireGuardConfig(c) ==
    IF missingRequiredFields(c)
    THEN <<>>
    ELSE   <<"[Interface]", NL>>
        \o KeyEq("PrivateKey") \o c.PrivateKey \o <<NL>>
        \o <<"#", SP, "Note: Address and DNS settings are now managed via the UDM Pro UI", NL>>
        \o <<"#", SP, "The following lines are maintained for compatibility with UI-created config", NL>>
        \o KeyEq("Address") \o <<"100.64.0.1/32">>
        \o (IF c.DNS # <<>> THEN <<NL>> \o KeyEq("DNS") \o RangeCommaList(c.DNS) ELSE <<>>)
        \o <<NL>>
        \o KeyEq("MTU") \o <<"1280", NL>>
        \o <<NL>>
        \o <<"[Peer]", NL>>
        \o KeyEq("PublicKey") \o c.PeerPublicKey
        \o (IF c.PeerPresharedKey # <<>>
            THEN <<NL>> \o KeyEq("PresharedKey") \o c.PeerPresharedKey ELSE <<>>)
        \o <<NL>>
        \o <<"#", SP, "AllowedIPs is now managed via the UDM Pro UI's policy-based routing", NL>>
        \o KeyEq("AllowedIPs") \o RangeCommaList(c.AllowedIPs) \o <<NL>>
        \o KeyEq("Endpoint") \o c.Endpoint \o <<":">> \o FormatInt(c.EndpointPort) \o <<NL>>
        \o KeyEq("PersistentKeepalive") \o <<"25", NL>>

\* The text one line of the existing configuration contributes to the result
\* inside [Interface]
mergeInterfaceLine(line, trimmedLine, c) ==
    IF HasPrefix(trimmedLine, Str("PrivateKey"))
    THEN KeyEq("PrivateKey") \o c.PrivateKey \o <<NL>>
    ELSE line \o <<NL>>

mergePeerLine_AlwaysPresharedKey(line, trimmedLine, c) ==
    IF HasPrefix(trimmedLine, Str("PublicKey"))
    THEN KeyEq("PublicKey") \o c.PeerPublicKey \o <<NL>>
    ELSE IF HasPrefix(trimmedLine, Str("PresharedKey"))
    THEN KeyEq("PresharedKey") \o c.PeerPresharedKey \o <<NL>>
    ELSE IF HasPrefix(trimmedLine, Str("Endpoint"))
    THEN KeyEq("Endpoint") \o c.Endpoint \o <<":">> \o FormatInt(c.EndpointPort) \o <<NL>>
    ELSE line \o <<NL>>

\* ... and inside [Peer]
mergePeerLine(line, trimmedLine, c) ==
    IF HasPrefix(trimmedLine, Str("PublicKey"))
    THEN KeyEq("PublicKey") \o c.PeerPublicKey \o <<NL>>
    ELSE IF HasPrefix(trimmedLine, Str("PresharedKey")) /\ c.PeerPresharedKey # <<>>
    THEN KeyEq("PresharedKey") \o c.PeerPresharedKey \o <<NL>>
    ELSE IF HasPrefix(trimmedLine, Str("Endpoint"))
    THEN KeyEq("Endpoint") \o c.Endpoint \o <<":">> \o FormatInt(c.EndpointPort) \o <<NL>>
    ELSE line \o <<NL>>

\* One iteration of the loop over the lines: st is (inInterface, inPeer, result)
mergeStep(st, line, c) ==
    LET trimmedLine == TrimSpace(line) IN
    IF trimmedLine = Str("[Interface]")
    THEN [inInterface |-> TRUE, inPeer |-> FALSE, result |-> st.result \o line \o <<NL>>]
    ELSE IF trimmedLine = Str("[Peer]")
    THEN [inInterface |-> FALSE, inPeer |-> TRUE, result |-> st.result \o line \o <<NL>>]
    ELSE IF trimmedLine = <<>>
    THEN [st EXCEPT !.result = @ \o line \o <<NL>>]
    ELSE LET afterInterface ==
                 IF st.inInterface
                 THEN st.result \o mergeInterfaceLine(line, trimmedLine, c)
                 ELSE st.result
             afterPeer ==
                 IF st.inPeer
                 THEN afterInterface \o mergePeerLine(line, trimmedLine, c)
                 ELSE afterInterface
         IN [st EXCEPT !.result = afterPeer]

RECURSIVE mergeLoop(_, _, _, _)
mergeLoop(st, lines, i, c) ==
    IF i > Len(lines) THEN st
    ELSE mergeLoop(mergeStep(st, lines[i], c), lines, i + 1, c)

mergeWithExistingConfig(existing, c) ==
    LET lines == Split(existing)
        final == mergeLoop([inInterface |-> FALSE, inPeer |-> FALSE, result |-> <<>>],
                           lines, 1, c)
    IN  IF ~Contains(existing, Str("PersistentKeepalive"))
        THEN final.result \o KeyEq("PersistentKeepalive") \o <<"25", NL>>
        ELSE final.result

-----------------------------------------------------------------------------
(* Inputs *)

\* Lines an existing tunnel file is made of (install/dummy-wireguard.conf and
\* what the UDM Pro UI writes), without their newline
InterfaceHeader == Str("[Interface]")
PeerHeader == Str("[Peer]")
BlankLine == <<>>
CommentLine == <<"#", SP, "Dummy WireGuard configuration for UDM Pro UI import">>
AddressLine == KeyEq("Address") \o <<"10.0.0.5/32">>
OldPrivateKeyLine == KeyEq("PrivateKey") \o <<"mLmL+DB1n8MfA+7Dc+vnEdZD+VffR3Li3QcJhdTLuEU=">>
OldPublicKeyLine == KeyEq("PublicKey") \o <<"YOw/RK8gT3PR4ImRfpnfvJ8UTY3GfJlO6PcPbl40Tkw=">>
OldPresharedKeyLine == <<SP, SP>> \o KeyEq("PresharedKey") \o <<"oldpsk=">>
OldEndpointLine == KeyEq("Endpoint") \o <<"engage.cloudflareclient.com", ":", "2408">>
KeepaliveLine == KeyEq("PersistentKeepalive") \o <<"25">>
IndentedPeerHeader == <<SP, "[Peer]", SP>>
\* a keepalive directive that is commented out
KeepaliveComment == <<"#", SP, "PersistentKeepalive", SP, "=", SP, "25">>

LineChoices ==
    { BlankLine, InterfaceHeader, PeerHeader, IndentedPeerHeader, CommentLine,
      AddressLine, OldPrivateKeyLine, OldPublicKeyLine, OldPresharedKeyLine,
      OldEndpointLine, KeepaliveLine, KeepaliveComment }

RECURSIVE JoinLines(_, _)
JoinLines(lines, i) ==
    IF i > Len(lines) THEN <<>>
    ELSE (IF i > 1 THEN <<NL>> ELSE <<>>) \o lines[i] \o JoinLines(lines, i + 1)

\* every text of 1..MaxLines lines (a last blank line is a trailing newline)
ExistingTexts ==
    { JoinLines(ls, 1) : ls \in UNION { [1..n -> LineChoices] : n \in 1..MaxLines } }

Credentials(priv, pub, peer, psk, host, port, ips, dns) ==
    [ PrivateKey |-> priv, PublicKey |-> pub, Endpoint |-> host, EndpointPort |-> port,
      AllowedIPs |-> ips, PeerPublicKey |-> peer, PeerPresharedKey |-> psk, DNS |-> dns ]

Keys(v) == { <<>>, Str(v) }

\* every WireGuardConfig GetWireGuardConfig can return: each string field of the
\* JSON result may be absent
AllCredentials ==
    { Credentials(priv, pub, peer, psk, host, port, ips, dns) :
        priv \in Keys("newPriv="), pub \in Keys("newPub="), peer \in Keys("newPeer="),
        psk \in Keys("newPsk="), host \in Keys("162.159.192.1"), port \in {0, 2408},
        ips \in { <<>>, <<Str("0.0.0.0/0")>>, <<Str("0.0.0.0/0"), Str("::/0")>> },
        dns \in { <<>>, <<Str("1.1.1.1")>>, <<Str("1.1.1.1"), Str("1.0.0.1")>> } }

FullCredentials ==
    Credentials(Str("newPriv="), Str("newPub="), Str("newPeer="), Str("newPsk="),
                Str("162.159.192.1"), 2408, <<Str("0.0.0.0/0"), Str("::/0")>>,
                <<Str("1.1.1.1")>>)

\* the credential sets the merge is explored with: complete, without the
\* optional pre-shared key, and with one required field missing
MergeCredentials ==
    { FullCredentials,
      [FullCredentials EXCEPT !.PeerPresharedKey = <<>>, !.DNS = <<>>],
      [FullCredentials EXCEPT !.PrivateKey = <<>>],
      [FullCredentials EXCEPT !.PublicKey = <<>>],
      [FullCredentials EXCEPT !.PeerPublicKey = <<>>],
      [FullCredentials EXCEPT !.Endpoint = <<>>, !.EndpointPort = 0] }

-----------------------------------------------------------------------------
(* package cloudflare: the device token and its cache *)

\* refresh_interval_minutes, at its default
RefreshIntervalMinutes == 60

\* durations, in seconds
Minute == 60
Hour == 60 * Minute

\* the Timeout of the client's http.Client
httpTimeout == 30

\* a duration or deadline x when d seconds have passed
LessBy(x, d) == IF x > d THEN x - d ELSE 0

\* the answers to POST .../devices/warp/register: the request fails, the body
\* is not a DeviceTokenResponse, success is false, or success is true with a
\* token and an expires_at; expires_at either parses as RFC3339, to a time
\* expiresIn seconds from now (0: not in the future), or it does not
NoRegistration == [kind |-> "none", token |-> <<>>, expiryParses |-> FALSE, expiresIn |-> 0]
RequestFails == [NoRegistration EXCEPT !.kind = "error sending request"]
BodyUndecodable == [NoRegistration EXCEPT !.kind = "error decoding response"]
Rejected == [NoRegistration EXCEPT !.kind = "device authentication failed"]
Registered(token, expiresIn) ==
    [kind |-> "ok", token |-> token, expiryParses |-> TRUE, expiresIn |-> expiresIn]
RegisteredBadExpiry(token) ==
    [kind |-> "ok", token |-> token, expiryParses |-> FALSE, expiresIn |-> 0]

tokenIsValid_NotAfter == accessToken # <<>> /\ tokenExpiresIn >= 0

\* if c.accessToken != "" && time.Now().Before(c.tokenExpiry)
tokenIsValid == accessToken # <<>> /\ tokenExpiresIn > 0

expiresAt_NoDefault(resp) == resp.expiresIn

\* expiresAt of AuthenticateDevice, in seconds from now
expiresAt(resp) == IF resp.expiryParses THEN resp.expiresIn ELSE Hour

AuthenticateDevice_ClearsCache(resp) ==
    IF tokenIsValid
    THEN /\ registration' = NoRegistration
         /\ UNCHANGED <<accessToken, tokenExpiresIn>>
    ELSE /\ registration' = resp
         /\ IF resp.kind = "ok"
            THEN /\ accessToken' = resp.token
                 /\ tokenExpiresIn' = expiresAt(resp)
            ELSE /\ accessToken' = <<>>
                 /\ tokenExpiresIn' = 0

\* Client.AuthenticateDevice, resp being the answer a registration call gets
AuthenticateDevice(resp) ==
    IF tokenIsValid
    THEN /\ registration' = NoRegistration
         /\ UNCHANGED <<accessToken, tokenExpiresIn>>
    ELSE /\ registration' = resp
         /\ IF resp.kind = "ok"
            THEN /\ accessToken' = resp.token
                 /\ tokenExpiresIn' = expiresAt(resp)
            ELSE UNCHANGED <<accessToken, tokenExpiresIn>>

\* whether that call returns an error
AuthenticateDeviceFails(resp) == ~tokenIsValid /\ resp.kind # "ok"

-----------------------------------------------------------------------------
(* package config: the configuration and where LoadConfig takes it from *)

\* the keys of the string fields of Config, as paths (the mapstructure tags)
ClientIDKey == <<"cloudflare_zero_trust", "client_id">>
ClientSecretKey == <<"cloudflare_zero_trust", "client_secret">>
AccountIDKey == <<"cloudflare_zero_trust", "account_id">>
InterfaceNameKey == <<"wireguard", "interface_name">>
ConfigPathKey == <<"wireguard", "config_path">>
ServiceNameKey == <<"udm_pro", "wireguard_service_name">>
RefreshIntervalKey == <<"refresh_interval_minutes">>

StringKeys == { ClientIDKey, ClientSecretKey, AccountIDKey, InterfaceNameKey, ConfigPathKey,
                ServiceNameKey }

\* viper.SetDefault(...): the keys that have a default, with its text
Defaults ==
    (RefreshIntervalKey :> Str("60")) @@
    (InterfaceNameKey :> Str("wg0")) @@
    (ConfigPathKey :> Str("/etc/wireguard/wg0.conf")) @@
    (ServiceNameKey :> Str("wg-quick@wg0"))

\* a configuration with which the service runs: the defaults and credentials
ServiceConfig ==
    [k \in StringKeys |-> IF k \in DOMAIN Defaults THEN Defaults[k] ELSE Str("configured")]

\* no --config flag, no CFWG_ variable, no config file
EmptyEnvironment == [configFileFlag |-> <<>>, env |-> <<>>, files |-> <<>>]

\* a config file: whether viper can read and parse it, and its settings
ConfigFile(settings) == [readable |-> TRUE, settings |-> settings]
UnreadableFile == [readable |-> FALSE, settings |-> <<>>]

\* the file CreateDefaultConfigFile writes
DefaultConfigFile ==
    ConfigFile((ClientIDKey :> Str("your_client_id_here")) @@
               (ClientSecretKey :> Str("your_client_secret_here")) @@
               (AccountIDKey :> Str("your_account_id_here")) @@
               (InterfaceNameKey :> Str("wg0")) @@
               (ConfigPathKey :> Str("/etc/wireguard/wg0.conf")) @@
               (ServiceNameKey :> Str("wg-quick@wg0")) @@
               (RefreshIntervalKey :> Str("60")))

\* viper.AddConfigPath(...), in this order, with the config name and type
CwdConfigFile == Str("./config.yaml")
EtcConfigFile == Str("/etc/cfwg-zt/config.yaml")
HomeConfigFile == Str("~/.cfwg-zt/config.yaml")
SearchedFiles == <<CwdConfigFile, EtcConfigFile, HomeConfigFile>>

\* viper's search for the config file: the first of the paths with a file
RECURSIVE findConfigFile(_, _)
findConfigFile(files, i) ==
    IF i > Len(SearchedFiles) THEN <<>>
    ELSE IF SearchedFiles[i] \in DOMAIN files THEN SearchedFiles[i]
    ELSE findConfigFile(files, i + 1)

\* strings.ToUpper on the words of a key
ToUpper(word) ==
    CASE word = "cfwg" -> "CFWG"
      [] word = "cloudflare_zero_trust" -> "CLOUDFLARE_ZERO_TRUST"
      [] word = "client_id" -> "CLIENT_ID"
      [] word = "client_secret" -> "CLIENT_SECRET"
      [] word = "account_id" -> "ACCOUNT_ID"
      [] word = "wireguard" -> "WIREGUARD"
      [] word = "interface_name" -> "INTERFACE_NAME"
      [] word = "config_path" -> "CONFIG_PATH"
      [] word = "udm_pro" -> "UDM_PRO"
      [] word = "wireguard_service_name" -> "WIREGUARD_SERVICE_NAME"
      [] word = "refresh_interval_minutes" -> "REFRESH_INTERVAL_MINUTES"
      [] OTHER -> word

\* the key of a path as viper writes it: the words joined with "."
RECURSIVE KeyOf(_, _)
KeyOf(path, i) ==
    IF i > Len(path) THEN <<>>
    ELSE (IF i > 1 THEN <<".">> ELSE <<>>) \o <<path[i]>> \o KeyOf(path, i + 1)

\* viper's mergeWithEnvPrefix with the prefix of SetEnvPrefix("CFWG") and no
\* key replacer: strings.ToUpper(prefix + "_" + key)
mergeWithEnvPrefix(path) ==
    LET key == <<"cfwg", "_">> \o KeyOf(path, 1)
    IN  [i \in 1..Len(key) |-> ToUpper(key[i])]

\* viper's getEnv: a variable that is set to "" counts as not set
EnvIsSet(env, name) == name \in DOMAIN env /\ env[name] # <<>>

\* viper's Get of a key after AutomaticEnv: the environment, then the config
\* file, then the default
Get(env, settings, path) ==
    IF EnvIsSet(env, mergeWithEnvPrefix(path)) THEN env[mergeWithEnvPrefix(path)]
    ELSE IF path \in DOMAIN settings THEN settings[path]
    ELSE IF path \in DOMAIN Defaults THEN Defaults[path]
    ELSE <<>>

\* viper's AllKeys: Unmarshal asks only for the keys of the config file and
\* of the defaults; a field of another key keeps its zero value
Setting(env, settings, path) ==
    IF path \in DOMAIN settings \cup DOMAIN Defaults THEN Get(env, settings, path) ELSE <<>>

\* the decoding of a setting into an int field
IsInt(text) == text \in { <<>>, Str("0"), Str("1"), Str("5"), Str("60") }
Atoi(text) ==
    CASE text = Str("1") -> 1
      [] text = Str("5") -> 5
      [] text = Str("60") -> 60
      [] OTHER -> 0

ZeroConfig == [k \in StringKeys |-> <<>>]

\* LoadConfig in environment e: (config, interval, err)
LoadConfig(e) ==
    LET found == findConfigFile(e.files, 1)
        settings == IF found = <<>> THEN <<>> ELSE e.files[found].settings
    IN  IF found # <<>> /\ ~e.files[found].readable
        THEN [cfg |-> ZeroConfig, interval |-> 0,
              err |-> Error("load", "failed to read config file")]
        ELSE IF ~IsInt(Setting(e.env, settings, RefreshIntervalKey))
        THEN [cfg |-> ZeroConfig, interval |-> 0,
              err |-> Error("load", "failed to unmarshal config")]
        ELSE [cfg |-> [k \in StringKeys |-> Setting(e.env, settings, k)],
              interval |-> Atoi(Setting(e.env, settings, RefreshIntervalKey)),
              err |-> NoError]

\* os.Setenv("CFWG_CONFIG_FILE", configFile) of loadConfigWithFlags
ConfigFileVariable == <<"CFWG", "_", "CONFIG_FILE">>
Setenv(e, name, value) ==
    [e EXCEPT !.env = [n \in DOMAIN e.env \cup {name} |->
                          IF n = name THEN value ELSE e.env[n]]]

\* the values of the variables of a command that has not run
NoCommand == [output |-> <<>>, exitError |-> FALSE]
NotQueried == [running |-> FALSE, err |-> FALSE]
NoDeviceStatus == [kind |-> "none", active |-> FALSE, warpEnabled |-> FALSE]

\* no command of the program but the one modelled has run
HostIdle ==
    /\ cfg = ServiceConfig
    /\ environ = EmptyEnvironment
    /\ exitCode = "none"
    /\ cmdResult = NoCommand
    /\ isRunning = NotQueried
    /\ deviceStatus = NoDeviceStatus

-----------------------------------------------------------------------------
(* MergeSpec: mergeWithExistingConfig applied to every text and credential set *)

\* the loop is not running while the functions are applied on their own
LoopNotStarted ==
    /\ pc = "not started"
    /\ consecutiveFailures = 0
    /\ err = NoError
    /\ sleepMinutes = 0
    /\ sleepLeft = 0
    /\ hasExistingConfig = FALSE
    /\ targetAtCall = NoFile
    /\ configFile = NoFile
    /\ backupFile = NoFile
    /\ serviceState = "inactive"
    /\ serviceAction = "none"
    /\ deviceToken = <<>>
    /\ refreshTimers = <<>>
    /\ sigs = 0
    /\ done = 0
    /\ listener = "not started"
    /\ configMode = "none"
    /\ backupMode = "none"

\* the configuration at its defaults and the client as NewClient returns it
ClientCreated ==
    /\ refreshIntervalMinutes = RefreshIntervalMinutes
    /\ accessToken = <<>>
    /\ tokenExpiresIn = 0
    /\ registration = NoRegistration

MergeInit ==
    /\ existingConfig \in ExistingTexts
    /\ wgConfig \in MergeCredentials
    /\ merged = <<>>
    /\ remerged = <<>>
    /\ rendered = <<>>
    /\ called = "none"
    /\ LoopNotStarted
    /\ ClientCreated
    /\ HostIdle

CallMerge ==
    /\ called = "none"
    /\ merged' = mergeWithExistingConfig(existingConfig, wgConfig)
    /\ called' = "merge"
    /\ UNCHANGED <<existingConfig, wgConfig, remerged, rendered, loopVars, hasExistingConfig, targetAtCall, fileVars, serviceVars, otherVars>>

CallMergeAgain ==
    /\ called = "merge"
    /\ remerged' = mergeWithExistingConfig(merged, wgConfig)
    /\ called' = "remerge"
    /\ UNCHANGED <<existingConfig, wgConfig, merged, rendered, loopVars, hasExistingConfig, targetAtCall, fileVars, serviceVars, otherVars>>

MergeNext == CallMerge \/ CallMergeAgain

MergeSpec == MergeInit /\ [][MergeNext]_vars

-----------------------------------------------------------------------------
(* BuildSpec: buildWireGuardConfig applied to every credential set *)

BuildInit ==
    /\ existingConfig = <<>>
    /\ wgConfig \in AllCredentials
    /\ merged = <<>>
    /\ remerged = <<>>
    /\ rendered = <<>>
    /\ called = "none"
    /\ LoopNotStarted
    /\ ClientCreated
    /\ HostIdle

CallBuild ==
    /\ called = "none"
    /\ rendered' = buildWireGuardConfig(wgConfig)
    /\ called' = "build"
    /\ UNCHANGED <<existingConfig, wgConfig, merged, remerged, loopVars, hasExistingConfig, targetAtCall, fileVars, serviceVars, otherVars>>

BuildNext == CallBuild

BuildSpec == BuildInit /\ [][BuildNext]_vars

-----------------------------------------------------------------------------
(* package udm: the service client *)

ServiceStates == { "active", "inactive", "failed" }

\* `systemctl is-active <unit>`: the state on its output, exit status 0 only
\* for an active unit
systemctlIsActive(state) == [output |-> <<state, NL>>, exitError |-> state # "active"]

isWireGuardRunning_OnlyInactive(cmd) ==
    IF cmd.exitError
    THEN IF TrimSpace(cmd.output) = Str("inactive")
         THEN [running |-> FALSE, err |-> FALSE]
         ELSE [running |-> FALSE, err |-> TRUE]
    ELSE [running |-> TrimSpace(cmd.output) = Str("active"), err |-> FALSE]

\* Client.isWireGuardRunning on the command's result: (running, err)
isWireGuardRunning(cmd) ==
    IF cmd.exitError
    THEN IF TrimSpace(cmd.output) = Str("inactive") \/ TrimSpace(cmd.output) = Str("unknown")
         THEN [running |-> FALSE, err |-> FALSE]
         ELSE [running |-> FALSE, err |-> TRUE]
    ELSE [running |-> TrimSpace(cmd.output) = Str("active"), err |-> FALSE]

-----------------------------------------------------------------------------
(* LoadSpec: LoadConfig and loadConfigWithFlags in every environment *)

\* config files of a site: complete, with an empty tunnel file path, and
\* without the client secret
SiteConfigFile ==
    ConfigFile((ClientIDKey :> Str("site-id")) @@
               (ClientSecretKey :> Str("site-secret")) @@
               (AccountIDKey :> Str("site-account")) @@
               (InterfaceNameKey :> Str("wg1")) @@
               (ConfigPathKey :> Str("/data/wireguard/wg1.conf")) @@
               (RefreshIntervalKey :> Str("5")))
NoPathConfigFile ==
    ConfigFile((ClientIDKey :> Str("site-id")) @@
               (ClientSecretKey :> Str("site-secret")) @@
               (AccountIDKey :> Str("site-account")) @@
               (ConfigPathKey :> <<>>))
NoSecretConfigFile ==
    ConfigFile((ClientIDKey :> Str("site-id")) @@
               (AccountIDKey :> Str("site-account")))
\* a config file with `refresh_interval_minutes: 0`
ZeroIntervalConfigFile ==
    ConfigFile((ClientIDKey :> Str("site-id")) @@
               (ClientSecretKey :> Str("site-secret")) @@
               (AccountIDKey :> Str("site-account")) @@
               (RefreshIntervalKey :> Str("0")))

\* the path given with --config
GivenConfigFile == Str("/tmp/config.yaml")

\* the files on disk: at most one in the working directory, one in
\* /etc/cfwg-zt and one at the path given
FilesOnDisk ==
    { cwd @@ etc @@ given :
        cwd \in { <<>>, CwdConfigFile :> DefaultConfigFile },
        etc \in { <<>> } \cup
                { EtcConfigFile :> f : f \in { DefaultConfigFile, SiteConfigFile, NoPathConfigFile,
                                               NoSecretConfigFile, ZeroIntervalConfigFile,
                                               UnreadableFile } },
        given \in { <<>>, GivenConfigFile :> SiteConfigFile,
                    GivenConfigFile :> DefaultConfigFile } }

\* the variables a user sets: named with underscores throughout, or as viper
\* derives the name from the key
UnderscoreName(path) ==
    LET key == <<"cfwg", "_">> \o KeyOf(path, 1)
    IN  [i \in 1..Len(key) |-> IF key[i] = "." THEN "_" ELSE ToUpper(key[i])]

IntervalBindings ==
    { <<UnderscoreName(RefreshIntervalKey), v>> : v \in { Str("1"), <<>>, Str("soon") } }
StringBindings ==
    { <<UnderscoreName(ConfigPathKey), Str("/env/wg9.conf")>>,
      <<mergeWithEnvPrefix(ConfigPathKey), Str("/env/wg9.conf")>>,
      <<UnderscoreName(ClientIDKey), Str("env-id")>>,
      <<mergeWithEnvPrefix(ClientIDKey), Str("env-id")>> }

EnvOf(bindings) ==
    [n \in { b[1] : b \in bindings } |-> (CHOOSE b \in bindings : b[1] = n)[2]]

Environs ==
    { EnvOf(i \cup s) : i \in { {} } \cup { {b} : b \in IntervalBindings },
                        s \in SUBSET StringBindings }

Environments ==
    { [configFileFlag |-> flag, env |-> env, files |-> files] :
        flag \in { <<>>, GivenConfigFile }, env \in Environs, files \in FilesOnDisk }

LoadInit ==
    /\ LoopNotStarted
    /\ wgConfig = Credentials(<<>>, <<>>, <<>>, <<>>, <<>>, 0, <<>>, <<>>)
    /\ existingConfig = <<>>
    /\ merged = <<>>
    /\ remerged = <<>>
    /\ rendered = <<>>
    /\ called = "none"
    /\ refreshIntervalMinutes = 0
    /\ accessToken = <<>>
    /\ tokenExpiresIn = 0
    /\ registration = NoRegistration
    /\ cfg = ZeroConfig
    /\ environ \in Environments
    /\ exitCode = "none"
    /\ cmdResult = NoCommand
    /\ isRunning = NotQueried
    /\ deviceStatus = NoDeviceStatus

\* cfg, err := config.LoadConfig()
CallLoadConfig ==
    /\ called = "none"
    /\ LET r == LoadConfig(environ) IN
       /\ cfg' = r.cfg
       /\ refreshIntervalMinutes' = r.interval
       /\ err' = r.err
    /\ called' = "load"
    /\ UNCHANGED <<pc, consecutiveFailures, sleepMinutes, sleepLeft, wgConfig, callVars,
                   fileVars, serviceVars, merged, remerged, rendered, environ, exitCode,
                   configMode, backupMode, cmdResult, isRunning, deviceStatus, deviceToken,
                   clientVars, refreshTimers, signalVars>>

\* cfg, err := loadConfigWithFlags()
CallLoadConfigWithFlags ==
    /\ called = "none"
    /\ LET e == IF environ.configFileFlag # <<>>
                THEN Setenv(environ, ConfigFileVariable, environ.configFileFlag)
                ELSE environ
           r == LoadConfig(e)
       IN  /\ environ' = e
           /\ cfg' = r.cfg
           /\ refreshIntervalMinutes' = r.interval
           /\ err' = r.err
    /\ called' = "load with flags"
    /\ UNCHANGED <<pc, consecutiveFailures, sleepMinutes, sleepLeft, wgConfig, callVars,
                   fileVars, serviceVars, merged, remerged, rendered, exitCode,
                   configMode, backupMode, cmdResult, isRunning, deviceStatus, deviceToken,
                   clientVars, refreshTimers, signalVars>>

LoadNext == CallLoadConfig \/ CallLoadConfigWithFlags

LoadSpec == LoadInit /\ [][LoadNext]_vars

-----------------------------------------------------------------------------
(* QuerySpec: isWireGuardRunning applied to every result of the command *)

\* the words `systemctl is-active` prints, and no word
ActiveStates == { "active", "reloading", "inactive", "failed", "activating", "deactivating",
                  "maintenance", "unknown" }

\* the ways the output is laid out
OutputsOf(word) == { <<word, NL>>, <<word>>, <<SP, word, NL>>, <<word, NL, NL>> }

\* the results of exec.Command(...).CombinedOutput(): every output with every
\* exit status, and no output at all (the command could not be run)
CommandResults ==
    { [output |-> o, exitError |-> e] :
         o \in {<<>>} \cup UNION { OutputsOf(w) : w \in ActiveStates }, e \in BOOLEAN }

QueryInit ==
    /\ LoopNotStarted
    /\ ClientCreated
    /\ wgConfig = Credentials(<<>>, <<>>, <<>>, <<>>, <<>>, 0, <<>>, <<>>)
    /\ existingConfig = <<>>
    /\ merged = <<>>
    /\ remerged = <<>>
    /\ rendered = <<>>
    /\ called = "none"
    /\ cfg = ServiceConfig
    /\ environ = EmptyEnvironment
    /\ exitCode = "none"
    /\ cmdResult \in CommandResults
    /\ isRunning = NotQueried
    /\ deviceStatus = NoDeviceStatus

\* c.isWireGuardRunning()
CallIsWireGuardRunning ==
    /\ called = "none"
    /\ isRunning' = isWireGuardRunning(cmdResult)
    /\ called' = "query"
    /\ UNCHANGED <<loopVars, wgConfig, callVars, fileVars, serviceVars, merged, remerged,
                   rendered, refreshIntervalMinutes, cfg, environ, exitCode, configMode,
                   backupMode, cmdResult, deviceStatus, deviceToken, clientVars,
                   refreshTimers, signalVars>>

QueryNext == CallIsWireGuardRunning

QuerySpec == QueryInit /\ [][QueryNext]_vars

-----------------------------------------------------------------------------
(* runService: the loop goroutine, with the calls it makes *)

maxConsecutiveFailures == 5

\* the size above which a write to the tunnel file fails (the disk is full),
\* in lines
DiskQuotaLines == 17

Min(a, b) == IF a < b THEN a ELSE b

\* the steps of Manager.UpdateConfig and of Client.ApplyWireGuardConfig
UpdateSteps == { "update: mkdir", "update: stat", "update: read", "update: backup",
                 "update: open", "update: write" }
ApplySteps == { "apply: status", "apply: restart", "apply: start", "apply: verify" }

\* the zero WireGuardConfig
NoCredentials == Credentials(<<>>, <<>>, <<>>, <<>>, <<>>, 0, <<>>, <<>>)

RotatedCredentials ==
    Credentials(Str("rotPriv="), Str("rotPub="), Str("rotPeer="), <<>>,
                Str("162.159.193.5"), 2408, <<Str("0.0.0.0/0")>>, <<>>)

\* what GetWireGuardConfig returns in the loop: complete credentials, rotated
\* from cycle to cycle, or a result with a field absent
FetchedCredentials ==
    { FullCredentials, RotatedCredentials,
      [FullCredentials EXCEPT !.PrivateKey = <<>>],
      [FullCredentials EXCEPT !.PublicKey = <<>>] }

\* install/dummy-wireguard.conf, its comments but the first left out
DummyConfig ==
    JoinLines(<<CommentLine, BlankLine, InterfaceHeader, OldPrivateKeyLine, AddressLine,
                BlankLine, PeerHeader, OldPublicKeyLine,
                KeyEq("AllowedIPs") \o <<"0.0.0.0/0", ",", SP, "::/0">>,
                OldEndpointLine, KeepaliveLine, BlankLine>>, 1)

\* an interface created in the UDM Pro UI as the setup guide says: private key
\* left blank, no peer
UIConfig == JoinLines(<<InterfaceHeader, AddressLine, KeyEq("ListenPort") \o <<"51820">>,
                        BlankLine>>, 1)

\* the tunnel file when the service starts
InitialFiles == { NoFile, File(<<>>), File(DummyConfig), File(UIConfig) }

\* the permission bits the tunnel file has then: the files that the UDM Pro UI
\* wrote are readable by all, the imported dummy configuration by the owner
InitialMode(file) ==
    IF ~file.exists THEN "none"
    ELSE IF file = File(DummyConfig) THEN "0600"
    ELSE "0644"

CountNewlines(s) == Len(SelectSeq(s, LAMBDA tok : tok = NL))

\* the answers the registration call gets while the loop runs: the token
\* registered is one whose expiry has come when it is next asked for
LoopToken == Str("device-token-1")
LoopRegistrations == { Rejected, Registered(LoopToken, 0) }

\* runService when its loop goroutine starts: the client is created, the
\* signal goroutine waits on sigs, main waits on done
LoopStarts ==
    /\ pc = "top"
    /\ err = NoError
    /\ sleepMinutes = 0
    /\ sleepLeft = 0
    /\ wgConfig = NoCredentials
    /\ deviceToken = <<>>
    /\ existingConfig = <<>>
    /\ hasExistingConfig = FALSE
    /\ targetAtCall = NoFile
    /\ backupFile = NoFile
    /\ serviceState \in ServiceStates
    /\ serviceAction = "none"
    /\ accessToken = <<>>
    /\ tokenExpiresIn = 0
    /\ registration = NoRegistration
    /\ refreshTimers = <<>>
    /\ sigs = 0
    /\ done = 0
    /\ listener = "waiting"
    /\ backupMode = "none"
    /\ HostIdle
    /\ merged = <<>>
    /\ remerged = <<>>
    /\ rendered = <<>>
    /\ called = "none"

Init ==
    /\ LoopStarts
    /\ consecutiveFailures = 0
    /\ refreshIntervalMinutes = RefreshIntervalMinutes
    /\ configFile \in InitialFiles
    /\ configMode = InitialMode(configFile)

FailCycle_Fatal(step, cause) ==
    /\ consecutiveFailures' = consecutiveFailures + 1
    /\ err' = Error(step, cause)
    /\ sleepMinutes' = 1
    /\ sleepLeft' = Minute
    /\ pc' = "exited"

FailCycle_NoCount(step, cause) ==
    /\ consecutiveFailures' = consecutiveFailures
    /\ err' = Error(step, cause)
    /\ sleepMinutes' = 1
    /\ sleepLeft' = Minute
    /\ pc' = "sleep"

\* if err != nil { consecutiveFailures++; log; time.Sleep(time.Minute); continue }
FailCycle(step, cause) ==
    /\ consecutiveFailures' = consecutiveFailures + 1
    /\ err' = Error(step, cause)
    /\ sleepMinutes' = 1
    /\ sleepLeft' = Minute
    /\ pc' = "sleep"

backoffTime_NoCap(failures) == (failures - maxConsecutiveFailures + 1) * 2

\* backoffTime, in minutes
backoffTime(failures) == Min((failures - maxConsecutiveFailures + 1) * 2, 30)

\* the head of the loop body with too many consecutive failures: sleep
EnterBackoff ==
    /\ pc = "top"
    /\ consecutiveFailures >= maxConsecutiveFailures
    /\ sleepMinutes' = backoffTime(consecutiveFailures)
    /\ sleepLeft' = backoffTime(consecutiveFailures) * Minute
    /\ pc' = "backoff"
    /\ UNCHANGED <<consecutiveFailures, err, wgConfig, callVars, fileVars, serviceVars, pureVars, otherVars>>

LeaveBackoff_KeepsCount ==
    /\ pc = "backoff"
    /\ sleepLeft = 0
    /\ consecutiveFailures' = consecutiveFailures
    /\ sleepMinutes' = 0
    /\ UNCHANGED sleepLeft
    /\ pc' = "auth"
    /\ UNCHANGED <<err, wgConfig, callVars, fileVars, serviceVars, pureVars, otherVars>>

\* ... and after the sleep reset the counter, but not completely
LeaveBackoff ==
    /\ pc = "backoff"
    /\ sleepLeft = 0
    /\ consecutiveFailures' = maxConsecutiveFailures - 2
    /\ sleepMinutes' = 0
    /\ UNCHANGED sleepLeft
    /\ pc' = "auth"
    /\ UNCHANGED <<err, wgConfig, callVars, fileVars, serviceVars, pureVars, otherVars>>

SkipBackoff ==
    /\ pc = "top"
    /\ consecutiveFailures < maxConsecutiveFailures
    /\ pc' = "auth"
    /\ UNCHANGED <<consecutiveFailures, err, sleepMinutes, sleepLeft, wgConfig, callVars, fileVars,
                   serviceVars, pureVars, otherVars>>

\* deviceToken, err := cfClient.AuthenticateDevice() and the handling of err,
\* the registration call being answered by one of the given answers
AuthenticateWith(registrations) ==
    /\ pc = "auth"
    /\ \E resp \in registrations :
          /\ AuthenticateDevice(resp)
          /\ IF AuthenticateDeviceFails(resp)
             THEN /\ deviceToken' = <<>>
                  /\ FailCycle("auth", resp.kind)
             ELSE /\ deviceToken' = accessToken'
                  /\ pc' = "fetch"
                  /\ err' = NoError
                  /\ UNCHANGED <<consecutiveFailures, sleepMinutes, sleepLeft>>
    /\ UNCHANGED <<wgConfig, callVars, fileVars, serviceVars, pureVars,
                   refreshIntervalMinutes, hostVars, refreshTimers, signalVars>>

Authenticate == AuthenticateWith(LoopRegistrations)

\* wgConfig, err := cfClient.GetWireGuardConfig(deviceToken) and the handling
\* of err, the result being one of the given credentials
GetWireGuardConfigFrom(credentials) ==
    /\ pc = "fetch"
    /\ \/ /\ wgConfig' \in credentials
          /\ pc' = "check"
          /\ err' = NoError
          /\ UNCHANGED <<consecutiveFailures, sleepMinutes, sleepLeft>>
       \/ /\ FailCycle("fetch", "failed to get WireGuard configuration")
          /\ UNCHANGED wgConfig
    /\ UNCHANGED <<callVars, fileVars, serviceVars, pureVars, otherVars>>

FetchCredentials == GetWireGuardConfigFrom(FetchedCredentials)

CheckService_OneMinute ==
    /\ pc = "check"
    /\ LET r == isWireGuardRunning(systemctlIsActive(serviceState)) IN
       /\ err' = IF r.err THEN Error("check", "error checking WireGuard service") ELSE NoError
       /\ IF ~r.running
          THEN /\ sleepMinutes' = 1
               /\ sleepLeft' = Minute
               /\ pc' = "sleep"
               /\ UNCHANGED <<callVars, backupFile, backupMode>>
          ELSE /\ pc' = "update: mkdir"
               /\ existingConfig' = <<>>
               /\ hasExistingConfig' = FALSE
               /\ targetAtCall' = configFile
               /\ backupFile' = NoFile
               /\ backupMode' = "none"
               /\ UNCHANGED <<sleepMinutes, sleepLeft>>
    /\ UNCHANGED <<consecutiveFailures, wgConfig, configFile, configMode, serviceVars, pureVars,
                   processVars>>

CheckService_CountsInactive ==
    /\ pc = "check"
    /\ LET r == isWireGuardRunning(systemctlIsActive(serviceState)) IN
       /\ err' = IF r.err THEN Error("check", "error checking WireGuard service") ELSE NoError
       /\ IF ~r.running
          THEN /\ consecutiveFailures' = consecutiveFailures + 1
               /\ sleepMinutes' = 5
               /\ sleepLeft' = 5 * Minute
               /\ pc' = "sleep"
               /\ UNCHANGED <<callVars, backupFile, backupMode>>
          ELSE /\ pc' = "update: mkdir"
               /\ existingConfig' = <<>>
               /\ hasExistingConfig' = FALSE
               /\ targetAtCall' = configFile
               /\ backupFile' = NoFile
               /\ backupMode' = "none"
               /\ UNCHANGED <<consecutiveFailures, sleepMinutes, sleepLeft>>
    /\ UNCHANGED <<wgConfig, configFile, configMode, serviceVars, pureVars, processVars>>

CheckService_IgnoresStatus ==
    /\ pc = "check"
    /\ LET r == isWireGuardRunning(systemctlIsActive(serviceState)) IN
       /\ err' = IF r.err THEN Error("check", "error checking WireGuard service") ELSE NoError
       /\ pc' = "update: mkdir"
       /\ existingConfig' = <<>>
       /\ hasExistingConfig' = FALSE
       /\ targetAtCall' = configFile
       /\ backupFile' = NoFile
       /\ backupMode' = "none"
       /\ UNCHANGED <<sleepMinutes, sleepLeft>>
    /\ UNCHANGED <<consecutiveFailures, wgConfig, configFile, configMode, serviceVars, pureVars,
                   processVars>>

\* udmClient.IsWireGuardRunning(): its error is logged; not running sleeps 5
\* minutes and continues; running enters UpdateConfig
CheckService ==
    /\ pc = "check"
    /\ LET r == isWireGuardRunning(systemctlIsActive(serviceState)) IN
       /\ err' = IF r.err THEN Error("check", "error checking WireGuard service") ELSE NoError
       /\ IF ~r.running
          THEN /\ sleepMinutes' = 5
               /\ sleepLeft' = 5 * Minute
               /\ pc' = "sleep"
               /\ UNCHANGED <<callVars, backupFile, backupMode>>
          ELSE /\ pc' = "update: mkdir"
               /\ existingConfig' = <<>>
               /\ hasExistingConfig' = FALSE
               /\ targetAtCall' = configFile
               /\ backupFile' = NoFile
               /\ backupMode' = "none"
               /\ UNCHANGED <<sleepMinutes, sleepLeft>>
    /\ UNCHANGED <<consecutiveFailures, wgConfig, configFile, configMode, serviceVars, pureVars,
                   processVars>>

\* os.MkdirAll(ConfigBackupPath, 0755)
UpdateConfigMkdirAll ==
    /\ pc = "update: mkdir"
    /\ \/ /\ pc' = "update: stat"
          /\ UNCHANGED <<consecutiveFailures, err, sleepMinutes, sleepLeft>>
       \/ FailCycle("update", "failed to create backup directory")
    /\ UNCHANGED <<wgConfig, callVars, fileVars, serviceVars, pureVars, otherVars>>

\* if _, err := os.Stat(configPath); err == nil
UpdateConfigStat ==
    /\ pc = "update: stat"
    /\ pc' = IF configFile.exists THEN "update: read" ELSE "update: open"
    /\ UNCHANGED <<consecutiveFailures, err, sleepMinutes, sleepLeft, wgConfig, callVars, fileVars,
                   serviceVars, pureVars, otherVars>>

\* configData, err := os.ReadFile(configPath)
UpdateConfigReadFile ==
    /\ pc = "update: read"
    /\ \/ /\ existingConfig' = configFile.content
          /\ hasExistingConfig' = TRUE
          /\ pc' = "update: backup"
          /\ UNCHANGED <<consecutiveFailures, err, sleepMinutes, sleepLeft>>
       \/ /\ FailCycle("update", "failed to read existing config for backup")
          /\ UNCHANGED <<existingConfig, hasExistingConfig>>
    /\ UNCHANGED <<wgConfig, targetAtCall, fileVars, serviceVars, pureVars, otherVars>>

\* the permission bits of a file that os.WriteFile(name, data, 0600) has created
CreatedMode(file) == IF file.exists THEN "0600" ELSE "none"

UpdateConfigWriteBackup_IgnoreError ==
    /\ pc = "update: backup"
    /\ \/ backupFile' = File(existingConfig)
       \/ backupFile' \in { NoFile, File(<<>>) }
    /\ backupMode' = CreatedMode(backupFile')
    /\ pc' = "update: open"
    /\ UNCHANGED <<consecutiveFailures, err, sleepMinutes, sleepLeft>>
    /\ UNCHANGED <<wgConfig, callVars, configFile, configMode, serviceVars, pureVars, processVars>>

\* os.WriteFile(backupPath, configData, 0600); a failed write leaves no backup
\* file or an incomplete one. The backup file is new (its name has the time of
\* the call in it), so it is created with the mode given
UpdateConfigWriteBackup ==
    /\ pc = "update: backup"
    /\ \/ /\ backupFile' = File(existingConfig)
          /\ pc' = "update: open"
          /\ UNCHANGED <<consecutiveFailures, err, sleepMinutes, sleepLeft>>
       \/ /\ backupFile' \in { NoFile, File(<<>>) }
          /\ FailCycle("update", "failed to create backup")
    /\ backupMode' = CreatedMode(backupFile')
    /\ UNCHANGED <<wgConfig, callVars, configFile, configMode, serviceVars, pureVars, processVars>>

\* configContent of UpdateConfig: the render, or the merge when there is a
\* non-empty existing configuration
configContent ==
    IF hasExistingConfig /\ Len(existingConfig) > 0
    THEN mergeWithExistingConfig(existingConfig, wgConfig)
    ELSE buildWireGuardConfig(wgConfig)

\* the permission bits of the file at a path after OpenFile(path,
\* O_WRONLY|O_CREATE|O_TRUNC, 0600): the mode is given to a file that open
\* creates, a file that exists keeps the bits it has
OpenFileMode(file, mode) == IF file.exists THEN mode ELSE "0600"

\* os.WriteFile(configPath, ..., 0600) opens the file with O_CREATE|O_TRUNC
UpdateConfigOpenFile ==
    /\ pc = "update: open"
    /\ \/ /\ cfg[ConfigPathKey] # <<>>
          /\ configFile' = File(<<>>)
          /\ configMode' = OpenFileMode(configFile, configMode)
          /\ pc' = "update: write"
          /\ UNCHANGED <<consecutiveFailures, err, sleepMinutes, sleepLeft>>
       \/ /\ FailCycle("update", "failed to write WireGuard configuration")
          /\ UNCHANGED <<configFile, configMode>>
    /\ UNCHANGED <<wgConfig, callVars, backupFile, backupMode, serviceVars, pureVars, processVars>>

\* ... and writes the content; UpdateConfig returns nil and the loop goes on
\* to ApplyWireGuardConfig
UpdateConfigWriteFile ==
    /\ pc = "update: write"
    /\ \/ /\ CountNewlines(configContent) <= DiskQuotaLines
          /\ configFile' = File(configContent)
          /\ pc' = "apply: status"
          /\ UNCHANGED <<consecutiveFailures, err, sleepMinutes, sleepLeft>>
       \/ /\ FailCycle("update", "failed to write WireGuard configuration")
          /\ UNCHANGED configFile
    /\ UNCHANGED <<wgConfig, callVars, backupFile, serviceVars, pureVars, otherVars>>

ApplyCheckStatus_SkipsRunning ==
    /\ pc = "apply: status"
    /\ LET r == isWireGuardRunning(systemctlIsActive(serviceState)) IN
       IF r.err
       THEN FailCycle("apply", "failed to check WireGuard service status")
       ELSE /\ pc' = IF r.running THEN "apply: verify" ELSE "apply: start"
            /\ UNCHANGED <<consecutiveFailures, err, sleepMinutes, sleepLeft>>
    /\ UNCHANGED <<wgConfig, callVars, fileVars, serviceVars, pureVars, otherVars>>

ApplyCheckStatus_StartsOnError ==
    /\ pc = "apply: status"
    /\ LET r == isWireGuardRunning(systemctlIsActive(serviceState)) IN
       /\ pc' = IF r.running THEN "apply: restart" ELSE "apply: start"
       /\ UNCHANGED <<consecutiveFailures, err, sleepMinutes, sleepLeft>>
    /\ UNCHANGED <<wgConfig, callVars, fileVars, serviceVars, pureVars, otherVars>>

\* ApplyWireGuardConfig: the first c.isWireGuardRunning()
ApplyCheckStatus ==
    /\ pc = "apply: status"
    /\ LET r == isWireGuardRunning(systemctlIsActive(serviceState)) IN
       IF r.err
       THEN FailCycle("apply", "failed to check WireGuard service status")
       ELSE /\ pc' = IF r.running THEN "apply: restart" ELSE "apply: start"
            /\ UNCHANGED <<consecutiveFailures, err, sleepMinutes, sleepLeft>>
    /\ UNCHANGED <<wgConfig, callVars, fileVars, serviceVars, pureVars, otherVars>>

\* c.restartWireGuardService(): systemctl restart
ApplyRestart ==
    /\ pc = "apply: restart"
    /\ serviceAction' = "restart"
    /\ \/ /\ serviceState' = "active"
          /\ pc' = "apply: verify"
          /\ UNCHANGED <<consecutiveFailures, err, sleepMinutes, sleepLeft>>
       \/ /\ serviceState' = "failed"
          /\ FailCycle("apply", "failed to restart WireGuard service")
    /\ UNCHANGED <<wgConfig, callVars, fileVars, pureVars, otherVars>>

\* c.startWireGuardService(): systemctl start
ApplyStart ==
    /\ pc = "apply: start"
    /\ serviceAction' = "start"
    /\ \/ /\ serviceState' = "active"
          /\ pc' = "apply: verify"
          /\ UNCHANGED <<consecutiveFailures, err, sleepMinutes, sleepLeft>>
       \/ /\ serviceState' = "failed"
          /\ FailCycle("apply", "failed to start WireGuard service")
    /\ UNCHANGED <<wgConfig, callVars, fileVars, pureVars, otherVars>>

refreshTime_WholeInterval == refreshIntervalMinutes * Minute

\* refreshTime, in seconds
refreshTime == (refreshIntervalMinutes * Minute) \div 2

\* time.AfterFunc(d, func() { cfClient.RefreshDeviceRegistration(token) ... })
AfterFunc(d, token) ==
    Append(refreshTimers, [phase |-> "pending", dueIn |-> d, token |-> token])

ApplyVerify_KeepsCount ==
    /\ pc = "apply: verify"
    /\ LET r == isWireGuardRunning(systemctlIsActive(serviceState)) IN
       IF r.err
       THEN /\ FailCycle("apply", "failed to verify WireGuard service status after restart")
            /\ UNCHANGED refreshTimers
       ELSE IF ~r.running
       THEN /\ FailCycle("apply", "WireGuard service failed to start")
            /\ UNCHANGED refreshTimers
       ELSE /\ Len(refreshTimers) < MaxTimers
            /\ consecutiveFailures' = consecutiveFailures
            /\ err' = NoError
            /\ refreshTimers' = AfterFunc(refreshTime, deviceToken)
            /\ sleepMinutes' = refreshIntervalMinutes
            /\ sleepLeft' = refreshIntervalMinutes * Minute
            /\ pc' = "sleep"
    /\ UNCHANGED <<wgConfig, callVars, fileVars, serviceVars, pureVars,
                   refreshIntervalMinutes, hostVars, deviceToken, clientVars, signalVars>>

\* the second c.isWireGuardRunning(); on success the loop resets the counter,
\* schedules the registration refresh and sleeps for the refresh interval
ApplyVerify ==
    /\ pc = "apply: verify"
    /\ LET r == isWireGuardRunning(systemctlIsActive(serviceState)) IN
       IF r.err
       THEN /\ FailCycle("apply", "failed to verify WireGuard service status after restart")
            /\ UNCHANGED refreshTimers
       ELSE IF ~r.running
       THEN /\ FailCycle("apply", "WireGuard service failed to start")
            /\ UNCHANGED refreshTimers
       ELSE /\ Len(refreshTimers) < MaxTimers
            /\ consecutiveFailures' = 0
            /\ err' = NoError
            /\ refreshTimers' = AfterFunc(refreshTime, deviceToken)
            /\ sleepMinutes' = refreshIntervalMinutes
            /\ sleepLeft' = refreshIntervalMinutes * Minute
            /\ pc' = "sleep"
    /\ UNCHANGED <<wgConfig, callVars, fileVars, serviceVars, pureVars,
                   refreshIntervalMinutes, hostVars, deviceToken, clientVars, signalVars>>

\* time.Sleep returns and the loop starts its next iteration
Wake ==
    /\ pc = "sleep"
    /\ sleepLeft = 0
    /\ pc' = "top"
    /\ sleepMinutes' = 0
    /\ err' = NoError
    /\ wgConfig' = NoCredentials
    /\ deviceToken' = <<>>
    /\ registration' = NoRegistration
    /\ existingConfig' = <<>>
    /\ hasExistingConfig' = FALSE
    /\ serviceAction' = "none"
    /\ UNCHANGED <<consecutiveFailures, sleepLeft, targetAtCall, fileVars, serviceState,
                   pureVars, refreshIntervalMinutes, hostVars, accessToken, tokenExpiresIn,
                   refreshTimers, signalVars>>

\* what the loop's sleep and the timers wait for, in seconds
timedWaits == {sleepLeft} \cup { refreshTimers[i].dueIn : i \in DOMAIN refreshTimers }

SetMin(S) == CHOOSE x \in S : \A y \in S : x <= y

\* d seconds pass
Advance(d) ==
    /\ sleepLeft' = LessBy(sleepLeft, d)
    /\ tokenExpiresIn' = LessBy(tokenExpiresIn, d)
    /\ refreshTimers' = [i \in DOMAIN refreshTimers |->
                            [refreshTimers[i] EXCEPT !.dueIn = LessBy(@, d)]]

\* time passes while the loop sleeps, up to the next moment a sleep ends, a
\* timer is due or a request times out; the steps of the loop take no time
Elapse ==
    /\ pc \in { "sleep", "backoff" }
    /\ \A w \in timedWaits : w > 0
    /\ Advance(SetMin(timedWaits))
    /\ UNCHANGED <<pc, consecutiveFailures, err, sleepMinutes, wgConfig, callVars, fileVars,
                   serviceVars, pureVars, refreshIntervalMinutes, hostVars, deviceToken, accessToken,
                   registration, signalVars>>

\* a timer of time.AfterFunc is due: its function starts in a goroutine of
\* its own and sends the refresh request
RefreshFires ==
    /\ \E i \in DOMAIN refreshTimers :
          /\ refreshTimers[i].phase = "pending"
          /\ refreshTimers[i].dueIn = 0
          /\ refreshTimers' = [refreshTimers EXCEPT ![i] =
                                  [@ EXCEPT !.phase = "running", !.dueIn = httpTimeout]]
    /\ UNCHANGED <<loopVars, wgConfig, callVars, fileVars, serviceVars, pureVars,
                   refreshIntervalMinutes, hostVars, deviceToken, clientVars, signalVars>>

RemoveAt(seq, i) == SubSeq(seq, 1, i - 1) \o SubSeq(seq, i + 1, Len(seq))

RefreshCompletes_CountsFailure ==
    /\ \E i \in DOMAIN refreshTimers, refreshed \in BOOLEAN :
          /\ refreshTimers[i].phase = "running"
          /\ refreshTimers' = RemoveAt(refreshTimers, i)
          /\ consecutiveFailures' = IF refreshed THEN consecutiveFailures
                                    ELSE consecutiveFailures + 1
    /\ UNCHANGED <<pc, err, sleepMinutes, sleepLeft, wgConfig, callVars, fileVars, serviceVars,
                   pureVars, refreshIntervalMinutes, hostVars, deviceToken, clientVars, signalVars>>

\* RefreshDeviceRegistration returns, nil or an error (at the latest when the
\* request times out); the function logs the one or the other and ends
RefreshCompletes ==
    /\ \E i \in DOMAIN refreshTimers, refreshed \in BOOLEAN :
          /\ refreshTimers[i].phase = "running"
          /\ refreshTimers' = RemoveAt(refreshTimers, i)
    /\ UNCHANGED <<loopVars, wgConfig, callVars, fileVars, serviceVars, pureVars,
                   refreshIntervalMinutes, hostVars, deviceToken, clientVars, signalVars>>

\* the tunnel service stops, fails or is enabled again outside the program
ServiceChanges ==
    /\ pc # "not started"
    /\ serviceState' \in ServiceStates \ {serviceState}
    /\ UNCHANGED <<loopVars, wgConfig, callVars, fileVars, serviceAction, pureVars, otherVars>>

\* what a goroutine reads and writes, of the variables that outlive a
\* statement, in the statement it is at
Access(reads, writes) == [reads |-> reads, writes |-> writes]

\* the loop goroutine: AuthenticateDevice reads and stores the cached token
\* and its expiry and the loop declares deviceToken; the steps that can fail
\* add to consecutiveFailures, the loop head reads it and the backoff resets
\* it; the end of a successful cycle resets it and hands deviceToken to the
\* function it schedules
loopAccess ==
    IF pc = "auth"
    THEN Access({ "config", "baseURL", "httpClient", "accessToken", "tokenExpiry" },
                { "accessToken", "tokenExpiry", "deviceToken", "consecutiveFailures" })
    ELSE IF pc = "fetch"
    THEN Access({ "baseURL", "httpClient", "deviceToken" }, { "consecutiveFailures" })
    ELSE IF pc = "top" THEN Access({ "consecutiveFailures" }, {})
    ELSE IF pc = "backoff" THEN Access({}, { "consecutiveFailures" })
    ELSE IF pc = "check" THEN Access({ "config" }, {})
    ELSE IF pc \in UpdateSteps THEN Access({ "config" }, { "consecutiveFailures" })
    ELSE IF pc = "apply: verify"
    THEN Access({ "config", "deviceToken" }, { "consecutiveFailures" })
    ELSE IF pc \in ApplySteps THEN Access({ "config" }, { "consecutiveFailures" })
    ELSE Access({}, {})

callbackAccess_StoresToken(timer) ==
    IF timer.phase = "running"
    THEN Access({ "baseURL", "httpClient", "captured deviceToken" }, { "accessToken" })
    ELSE Access({}, {})

\* the function given to time.AfterFunc, once started: RefreshDeviceRegistration
\* reads the client's baseURL and httpClient and the deviceToken variable of
\* the cycle that scheduled it, which the loop does not touch again
callbackAccess(timer) ==
    IF timer.phase = "running"
    THEN Access({ "baseURL", "httpClient", "captured deviceToken" }, {})
    ELSE Access({}, {})

\* the signal goroutine: only the channels sigs and done
listenerAccess == Access({}, {})

\* the goroutines that exist, with what each is accessing
accesses ==
    <<loopAccess, listenerAccess>> \o
    [i \in DOMAIN refreshTimers |-> callbackAccess(refreshTimers[i])]

Next ==
    \/ EnterBackoff
    \/ LeaveBackoff
    \/ SkipBackoff
    \/ Authenticate
    \/ FetchCredentials
    \/ CheckService
    \/ UpdateConfigMkdirAll
    \/ UpdateConfigStat
    \/ UpdateConfigReadFile
    \/ UpdateConfigWriteBackup
    \/ UpdateConfigOpenFile
    \/ UpdateConfigWriteFile
    \/ ApplyCheckStatus
    \/ ApplyRestart
    \/ ApplyStart
    \/ ApplyVerify
    \/ Wake
    \/ Elapse
    \/ RefreshFires
    \/ RefreshCompletes
    \/ ServiceChanges

Spec == Init /\ [][Next]_vars

-----------------------------------------------------------------------------
(* RunSpec: the loop together with the signal goroutine and main, for      *)
(* complete credentials and several refresh intervals                      *)

\* refresh_interval_minutes as configured
RunIntervals == { 1, RefreshIntervalMinutes }

RunInit ==
    /\ LoopStarts
    /\ consecutiveFailures = 0
    /\ refreshIntervalMinutes \in RunIntervals
    /\ configFile = NoFile
    /\ configMode = "none"

FetchFullCredentials == GetWireGuardConfigFrom({ FullCredentials })

\* the operating system delivers SIGINT or SIGTERM: signal.Notify puts it in
\* sigs unless the channel is full
SignalArrives ==
    /\ pc \notin { "not started", "exited" }
    /\ sigs' = Min(sigs + 1, 1)
    /\ UNCHANGED <<loopVars, wgConfig, callVars, fileVars, serviceVars, pureVars,
                   refreshIntervalMinutes, hostVars, deviceToken, clientVars, refreshTimers,
                   done, listener>>

\* sig := <-sigs
ListenerReceives ==
    /\ listener = "waiting"
    /\ sigs > 0
    /\ sigs' = sigs - 1
    /\ listener' = "notifying"
    /\ UNCHANGED <<loopVars, wgConfig, callVars, fileVars, serviceVars, pureVars,
                   refreshIntervalMinutes, hostVars, deviceToken, clientVars, refreshTimers, done>>

ListenerNotifies_Forgets ==
    /\ listener = "notifying"
    /\ listener' = "finished"
    /\ UNCHANGED <<loopVars, wgConfig, callVars, fileVars, serviceVars, pureVars,
                   refreshIntervalMinutes, hostVars, deviceToken, clientVars, refreshTimers, sigs, done>>

\* done <- true, and the goroutine ends
ListenerNotifies ==
    /\ listener = "notifying"
    /\ done < 1
    /\ done' = done + 1
    /\ listener' = "finished"
    /\ UNCHANGED <<loopVars, wgConfig, callVars, fileVars, serviceVars, pureVars,
                   refreshIntervalMinutes, hostVars, deviceToken, clientVars, refreshTimers, sigs>>

\* <-done in runService, which then returns: the process exits and its
\* goroutines and timers end where they are
MainReturns ==
    /\ pc \notin { "not started", "exited" }
    /\ done > 0
    /\ done' = done - 1
    /\ pc' = "exited"
    /\ refreshTimers' = <<>>
    /\ UNCHANGED <<consecutiveFailures, err, sleepMinutes, sleepLeft, wgConfig, callVars,
                   fileVars, serviceVars, pureVars, refreshIntervalMinutes, hostVars, deviceToken,
                   clientVars, sigs, listener>>

RunNext ==
    \/ EnterBackoff
    \/ LeaveBackoff
    \/ SkipBackoff
    \/ Authenticate
    \/ FetchFullCredentials
    \/ CheckService
    \/ UpdateConfigMkdirAll
    \/ UpdateConfigStat
    \/ UpdateConfigReadFile
    \/ UpdateConfigWriteBackup
    \/ UpdateConfigOpenFile
    \/ UpdateConfigWriteFile
    \/ ApplyCheckStatus
    \/ ApplyRestart
    \/ ApplyStart
    \/ ApplyVerify
    \/ Wake
    \/ Elapse
    \/ RefreshFires
    \/ RefreshCompletes
    \/ ServiceChanges
    \/ SignalArrives
    \/ ListenerReceives
    \/ ListenerNotifies
    \/ MainReturns

RunSpec == RunInit /\ [][RunNext]_vars

\* the steps that take the loop goroutine from a sleep to Authenticating
LoopResumes ==
    \/ Wake
    \/ EnterBackoff
    \/ LeaveBackoff
    \/ SkipBackoff

\* the Go scheduler lets a goroutine that can run take its next step: the
\* signal goroutine, main, the loop goroutine when its sleep is over; time
\* passes, and a refresh request ends at the latest when it times out
FairRunSpec ==
    /\ RunSpec
    /\ WF_vars(LoopResumes)
    /\ WF_vars(Elapse)
    /\ WF_vars(RefreshFires \/ RefreshCompletes)
    /\ WF_vars(ListenerReceives \/ ListenerNotifies)
    /\ WF_vars(MainReturns)

\* ... and the loop goroutine also takes the steps of a cycle that wait for
\* nothing but an answer: authentication, the fetch and the status query
FairCycleSpec ==
    /\ FairRunSpec
    /\ WF_vars(Authenticate)
    /\ WF_vars(FetchFullCredentials)
    /\ WF_vars(CheckService)

-----------------------------------------------------------------------------
(* StartSpec: the start command, from LoadConfig to the loop *)

StartSteps == { "start: logging", "start: client", "start: verify", "start: loop" }

\* the environments the service is started in: no --config flag, no CFWG_
\* variable, and in /etc/cfwg-zt no config file or one of the files above
StartEnvironments ==
    { [configFileFlag |-> <<>>, env |-> <<>>, files |-> files] :
        files \in { <<>> } \cup
                  { EtcConfigFile :> f : f \in { DefaultConfigFile, SiteConfigFile,
                                                 NoPathConfigFile, NoSecretConfigFile,
                                                 ZeroIntervalConfigFile, UnreadableFile } } }

StartInit ==
    /\ LoadInit
    /\ environ \in StartEnvironments

\* log.Fatalf: the process exits with status 1
Fatal(step, cause) ==
    /\ pc' = "exited"
    /\ exitCode' = "1"
    /\ err' = Error(step, cause)

\* cfg, err := config.LoadConfig(); if err != nil { log.Fatalf(...) }
StartLoadConfig ==
    /\ pc = "not started"
    /\ called = "none"
    /\ LET r == LoadConfig(environ) IN
       IF r.err # NoError
       THEN /\ Fatal("load", r.err.cause)
            /\ UNCHANGED <<cfg, refreshIntervalMinutes>>
       ELSE /\ cfg' = r.cfg
            /\ refreshIntervalMinutes' = r.interval
            /\ pc' = "start: logging"
            /\ UNCHANGED <<err, exitCode>>
    /\ UNCHANGED <<consecutiveFailures, sleepMinutes, sleepLeft, wgConfig, callVars, fileVars,
                   serviceVars, pureVars, environ, configMode, backupMode, cmdResult,
                   isRunning, deviceStatus, deviceToken, clientVars, refreshTimers,
                   signalVars>>

\* logFile, err := setupLogging(cfg.Debug)
StartSetupLogging ==
    /\ pc = "start: logging"
    /\ \/ /\ pc' = "start: client"
          /\ UNCHANGED <<err, exitCode>>
       \/ Fatal("logging", "failed to open log file")
    /\ UNCHANGED <<consecutiveFailures, sleepMinutes, sleepLeft, wgConfig, callVars, fileVars,
                   serviceVars, pureVars, refreshIntervalMinutes, cfg, environ, configMode,
                   backupMode, cmdResult, isRunning, deviceStatus, deviceToken, clientVars,
                   refreshTimers, signalVars>>

\* cfClient, err := cloudflare.NewClient(cfg)
StartNewClient ==
    /\ pc = "start: client"
    /\ IF cfg[ClientIDKey] = <<>> \/ cfg[ClientSecretKey] = <<>>
       THEN Fatal("client", "missing Cloudflare Zero Trust credentials in configuration")
       ELSE /\ pc' = "start: verify"
            /\ UNCHANGED <<err, exitCode>>
    /\ UNCHANGED <<consecutiveFailures, sleepMinutes, sleepLeft, wgConfig, callVars, fileVars,
                   serviceVars, pureVars, refreshIntervalMinutes, cfg, environ, configMode,
                   backupMode, cmdResult, isRunning, deviceStatus, deviceToken, clientVars,
                   refreshTimers, signalVars>>

\* udmClient.VerifyWireGuardAvailable(): `which wg` and `which wg-quick`,
\* then the interface name and the service name
StartVerifyWireGuardAvailable ==
    /\ pc = "start: verify"
    /\ \/ Fatal("verify", "WireGuard command not found")
       \/ IF cfg[InterfaceNameKey] = <<>>
          THEN Fatal("verify", "WireGuard interface name not configured")
          ELSE IF cfg[ServiceNameKey] = <<>>
          THEN Fatal("verify", "WireGuard service name not configured")
          ELSE /\ pc' = "start: loop"
               /\ UNCHANGED <<err, exitCode>>
    /\ UNCHANGED <<consecutiveFailures, sleepMinutes, sleepLeft, wgConfig, callVars, fileVars,
                   serviceVars, pureVars, refreshIntervalMinutes, cfg, environ, configMode,
                   backupMode, cmdResult, isRunning, deviceStatus, deviceToken, clientVars,
                   refreshTimers, signalVars>>

\* signal.Notify and the signal goroutine, wgManager.ValidateConfig() (its
\* result is only logged), and the loop goroutine is started
StartLoop ==
    /\ pc = "start: loop"
    /\ pc' = "top"
    /\ listener' = "waiting"
    /\ UNCHANGED <<consecutiveFailures, err, sleepMinutes, sleepLeft, wgConfig, callVars,
                   fileVars, serviceVars, pureVars, refreshIntervalMinutes, hostVars,
                   deviceToken, clientVars, refreshTimers, sigs, done>>

StartNext ==
    \/ StartLoadConfig
    \/ StartSetupLogging
    \/ StartNewClient
    \/ StartVerifyWireGuardAvailable
    \/ StartLoop
    \/ EnterBackoff
    \/ LeaveBackoff
    \/ SkipBackoff
    \/ Authenticate
    \/ FetchFullCredentials
    \/ CheckService
    \/ UpdateConfigMkdirAll
    \/ UpdateConfigStat
    \/ UpdateConfigReadFile
    \/ UpdateConfigWriteBackup
    \/ UpdateConfigOpenFile
    \/ UpdateConfigWriteFile
    \/ ApplyCheckStatus
    \/ ApplyRestart
    \/ ApplyStart
    \/ ApplyVerify
    \/ Wake
    \/ Elapse
    \/ RefreshFires
    \/ RefreshCompletes
    \/ ServiceChanges

StartSpec == StartInit /\ [][StartNext]_vars

-----------------------------------------------------------------------------
(* StatusSpec: the status command *)

StatusSteps == { "status: client", "status: stat", "status: query", "status: auth",
                 "status: device" }

\* the answers to the request of GetDeviceStatus: no answer, a status other
\* than 200, a body that cannot be decoded, or the flags of the device
StatusRequestFails == [NoDeviceStatus EXCEPT !.kind = "error sending request"]
StatusNotOK == [NoDeviceStatus EXCEPT !.kind = "device status check failed"]
StatusUndecodable == [NoDeviceStatus EXCEPT !.kind = "error decoding response"]
DeviceReported(active, warpEnabled) ==
    [kind |-> "ok", active |-> active, warpEnabled |-> warpEnabled]

DeviceStatuses ==
    { StatusRequestFails, StatusNotOK, StatusUndecodable }
    \cup { DeviceReported(a, w) : a \in BOOLEAN, w \in BOOLEAN }

GetDeviceStatus_ActiveOnly(resp) ==
    IF resp.kind = "ok"
    THEN [active |-> resp.active, err |-> FALSE]
    ELSE [active |-> FALSE, err |-> TRUE]

\* Client.GetDeviceStatus on the answer to its request: (active, err)
GetDeviceStatus(resp) ==
    IF resp.kind = "ok"
    THEN [active |-> resp.active /\ resp.warpEnabled, err |-> FALSE]
    ELSE [active |-> FALSE, err |-> TRUE]

\* the answers to the registration call of the command
StatusRegistrations == { RequestFails, Rejected, Registered(LoopToken, Hour) }

\* the environments the command is run in: with or without --config, and in
\* /etc/cfwg-zt no config file or one of the files above
StatusEnvironments ==
    { [configFileFlag |-> flag, env |-> <<>>, files |-> files] :
        flag \in { <<>>, GivenConfigFile },
        files \in { <<>>, EtcConfigFile :> DefaultConfigFile, EtcConfigFile :> NoPathConfigFile,
                    EtcConfigFile :> UnreadableFile } }

\* the tunnel file is there or not, and the service is in any state
StatusInit ==
    /\ pc = "not started"
    /\ consecutiveFailures = 0
    /\ err = NoError
    /\ sleepMinutes = 0
    /\ sleepLeft = 0
    /\ wgConfig = Credentials(<<>>, <<>>, <<>>, <<>>, <<>>, 0, <<>>, <<>>)
    /\ existingConfig = <<>>
    /\ hasExistingConfig = FALSE
    /\ targetAtCall = NoFile
    /\ configFile \in { NoFile, File(DummyConfig) }
    /\ configMode = InitialMode(configFile)
    /\ backupFile = NoFile
    /\ backupMode = "none"
    /\ serviceState \in ServiceStates
    /\ serviceAction = "none"
    /\ merged = <<>>
    /\ remerged = <<>>
    /\ rendered = <<>>
    /\ called = "none"
    /\ refreshIntervalMinutes = 0
    /\ cfg = ZeroConfig
    /\ environ \in StatusEnvironments
    /\ exitCode = "none"
    /\ cmdResult = NoCommand
    /\ isRunning = NotQueried
    /\ deviceStatus = NoDeviceStatus
    /\ deviceToken = <<>>
    /\ accessToken = <<>>
    /\ tokenExpiresIn = 0
    /\ registration = NoRegistration
    /\ refreshTimers = <<>>
    /\ sigs = 0
    /\ done = 0
    /\ listener = "not started"

\* os.Exit(code), or the return of the command (code 0)
Exit(code) ==
    /\ pc' = "exited"
    /\ exitCode' = code

\* cfg, err := loadConfigWithFlags()
StatusLoadConfig ==
    /\ pc = "not started"
    /\ LET e == IF environ.configFileFlag # <<>>
                THEN Setenv(environ, ConfigFileVariable, environ.configFileFlag)
                ELSE environ
           r == LoadConfig(e)
       IN  /\ environ' = e
           /\ IF r.err # NoError
              THEN /\ Fatal("load", r.err.cause)
                   /\ UNCHANGED <<cfg, refreshIntervalMinutes>>
              ELSE /\ cfg' = r.cfg
                   /\ refreshIntervalMinutes' = r.interval
                   /\ pc' = "status: client"
                   /\ UNCHANGED <<err, exitCode>>
    /\ UNCHANGED <<consecutiveFailures, sleepMinutes, sleepLeft, wgConfig, callVars, fileVars,
                   serviceVars, pureVars, configMode, backupMode, cmdResult,
                   isRunning, deviceStatus, deviceToken, clientVars, refreshTimers,
                   signalVars>>

\* cfClient, err := cloudflare.NewClient(cfg)
StatusNewClient ==
    /\ pc = "status: client"
    /\ IF cfg[ClientIDKey] = <<>> \/ cfg[ClientSecretKey] = <<>>
       THEN Fatal("client", "missing Cloudflare Zero Trust credentials in configuration")
       ELSE /\ pc' = "status: stat"
            /\ UNCHANGED <<err, exitCode>>
    /\ UNCHANGED <<consecutiveFailures, sleepMinutes, sleepLeft, wgConfig, callVars, fileVars,
                   serviceVars, pureVars, refreshIntervalMinutes, cfg, environ, configMode,
                   backupMode, cmdResult, isRunning, deviceStatus, deviceToken, clientVars,
                   refreshTimers, signalVars>>

\* the file at cfg.WireGuard.ConfigPath: there is none at the empty path
TunnelFileExists == cfg[ConfigPathKey] # <<>> /\ configFile.exists

\* if _, err := os.Stat(configPath); os.IsNotExist(err) { ...; os.Exit(1) }
StatusStat ==
    /\ pc = "status: stat"
    /\ IF TunnelFileExists
       THEN /\ pc' = "status: query"
            /\ UNCHANGED exitCode
       ELSE Exit("1")
    /\ UNCHANGED <<consecutiveFailures, err, sleepMinutes, sleepLeft, wgConfig, callVars,
                   fileVars, serviceVars, pureVars, refreshIntervalMinutes, cfg, environ,
                   configMode, backupMode, cmdResult, isRunning, deviceStatus, deviceToken,
                   clientVars, refreshTimers, signalVars>>

\* isRunning, err := udmClient.IsWireGuardRunning()
StatusQuery ==
    /\ pc = "status: query"
    /\ cmdResult' = systemctlIsActive(serviceState)
    /\ isRunning' = isWireGuardRunning(cmdResult')
    /\ IF isRunning'.err
       THEN Fatal("check", "error checking WireGuard service")
       ELSE IF ~isRunning'.running
       THEN Exit("1") /\ UNCHANGED err
       ELSE /\ pc' = "status: auth"
            /\ UNCHANGED <<err, exitCode>>
    /\ UNCHANGED <<consecutiveFailures, sleepMinutes, sleepLeft, wgConfig, callVars,
                   fileVars, serviceVars, pureVars, refreshIntervalMinutes, cfg, environ,
                   configMode, backupMode, deviceStatus, deviceToken, clientVars,
                   refreshTimers, signalVars>>

\* deviceToken, err := cfClient.AuthenticateDevice()
StatusAuthenticate ==
    /\ pc = "status: auth"
    /\ \E resp \in StatusRegistrations :
          /\ AuthenticateDevice(resp)
          /\ IF AuthenticateDeviceFails(resp)
             THEN /\ Fatal("auth", resp.kind)
                  /\ UNCHANGED deviceToken
             ELSE /\ deviceToken' = accessToken'
                  /\ pc' = "status: device"
                  /\ UNCHANGED <<err, exitCode>>
    /\ UNCHANGED <<consecutiveFailures, sleepMinutes, sleepLeft, wgConfig, callVars,
                   fileVars, serviceVars, pureVars, refreshIntervalMinutes, cfg, environ,
                   configMode, backupMode, cmdResult, isRunning, deviceStatus,
                   refreshTimers, signalVars>>

\* active, err := cfClient.GetDeviceStatus(deviceToken), and the end of the
\* command
StatusDevice ==
    /\ pc = "status: device"
    /\ \E resp \in DeviceStatuses :
          /\ deviceStatus' = resp
          /\ LET r == GetDeviceStatus(resp) IN
             IF r.err THEN Exit("1") /\ err' = Error("status", resp.kind)
             ELSE IF r.active THEN Exit("0") /\ UNCHANGED err
             ELSE Exit("1") /\ UNCHANGED err
    /\ UNCHANGED <<consecutiveFailures, sleepMinutes, sleepLeft, wgConfig, callVars,
                   fileVars, serviceVars, pureVars, refreshIntervalMinutes, cfg, environ,
                   configMode, backupMode, cmdResult, isRunning, deviceToken, clientVars,
                   refreshTimers, signalVars>>

StatusNext ==
    \/ StatusLoadConfig
    \/ StatusNewClient
    \/ StatusStat
    \/ StatusQuery
    \/ StatusAuthenticate
    \/ StatusDevice

StatusSpec == StatusInit /\ [][StatusNext]_vars

-----------------------------------------------------------------------------
(* AuthSpec: AuthenticateDevice called again and again on a new client, with *)
(* every answer to its registration calls, as time passes                    *)

OtherToken == Str("device-token-2")

\* the answers of the identity service: tokens that differ, an empty token,
\* expiries that are past, half an hour and two hours ahead, or unparseable
AuthRegistrations ==
    { RequestFails, BodyUndecodable, Rejected }
    \cup { Registered(token, expiresIn) :
             token \in { LoopToken, OtherToken, <<>> },
             expiresIn \in { 0, 30 * Minute, 2 * Hour } }
    \cup { RegisteredBadExpiry(token) : token \in { LoopToken, OtherToken } }

\* the time between two calls
ClockSteps == { 10 * Minute, 30 * Minute, Hour }

AuthInit ==
    /\ LoopNotStarted
    /\ ClientCreated
    /\ HostIdle
    /\ wgConfig = NoCredentials
    /\ existingConfig = <<>>
    /\ merged = <<>>
    /\ remerged = <<>>
    /\ rendered = <<>>
    /\ called = "none"

\* deviceToken, err := cfClient.AuthenticateDevice()
CallAuthenticateDevice ==
    /\ pc = "not started"
    /\ \E resp \in AuthRegistrations :
          /\ AuthenticateDevice(resp)
          /\ deviceToken' = IF AuthenticateDeviceFails(resp) THEN <<>> ELSE accessToken'
          /\ err' = IF AuthenticateDeviceFails(resp) THEN Error("auth", resp.kind) ELSE NoError
    /\ UNCHANGED <<pc, consecutiveFailures, sleepMinutes, sleepLeft, wgConfig, callVars,
                   fileVars, serviceVars, pureVars, refreshIntervalMinutes, hostVars, refreshTimers,
                   signalVars>>

\* time passes between the calls
ClockAdvances ==
    /\ pc = "not started"
    /\ \E d \in ClockSteps : Advance(d)
    /\ UNCHANGED <<pc, consecutiveFailures, err, sleepMinutes, wgConfig, callVars, fileVars,
                   serviceVars, pureVars, refreshIntervalMinutes, hostVars, deviceToken, accessToken,
                   registration, signalVars>>

AuthNext == CallAuthenticateDevice \/ ClockAdvances

AuthSpec == AuthInit /\ [][AuthNext]_vars

\* time does not stand still
FairAuthSpec == AuthSpec /\ WF_vars(ClockAdvances)

-----------------------------------------------------------------------------
(* BackoffSpec: the head of the loop body entered with every count of failures *)

BackoffInit ==
    /\ LoopStarts
    /\ consecutiveFailures \in 0..MaxFailures
    /\ refreshIntervalMinutes = RefreshIntervalMinutes
    /\ configFile \in InitialFiles
    /\ configMode = InitialMode(configFile)

BackoffNext ==
    \/ EnterBackoff
    \/ Elapse
    \/ LeaveBackoff
    \/ SkipBackoff

BackoffSpec == BackoffInit /\ [][BackoffNext]_vars

-----------------------------------------------------------------------------
(* Reading a tunnel configuration text, as the claims speak of it *)

IsBlank(line) == TrimSpace(line) = <<>>

IsHeader(line) == TrimSpace(line) \in { Str("[Interface]"), Str("[Peer]") }

\* the key a "Key = Value" line begins with
LineKey(line) == IF IsBlank(line) THEN "" ELSE Head(TrimSpace(line))

\* the section line i stands in: that of the last header above it
RECURSIVE SectionOf(_, _)
SectionOf(lines, i) ==
    IF i <= 1 THEN "none"
    ELSE IF TrimSpace(lines[i - 1]) = Str("[Interface]") THEN "interface"
    ELSE IF TrimSpace(lines[i - 1]) = Str("[Peer]") THEN "peer"
    ELSE SectionOf(lines, i - 1)

\* the lines inside the sections, in order, each with its section
RECURSIVE SectionBodyFrom(_, _)
SectionBodyFrom(lines, i) ==
    IF i > Len(lines) THEN <<>>
    ELSE IF SectionOf(lines, i) # "none" /\ ~IsBlank(lines[i]) /\ ~IsHeader(lines[i])
    THEN <<[section |-> SectionOf(lines, i), line |-> lines[i]]>> \o SectionBodyFrom(lines, i + 1)
    ELSE SectionBodyFrom(lines, i + 1)

SectionBody(text) == SectionBodyFrom(Split(text), 1)

\* the values the lines of the given key have in the given section
SectionValues(text, section, key) ==
    { SectionBody(text)[i].line : i \in { j \in 1..Len(SectionBody(text)) :
          /\ SectionBody(text)[j].section = section
          /\ LineKey(SectionBody(text)[j].line) = key } }

SystemKeys == { "PrivateKey", "PublicKey", "PresharedKey", "Endpoint" }

PrivateKeyLine(c) == KeyEq("PrivateKey") \o c.PrivateKey
PublicKeyLine(c) == KeyEq("PublicKey") \o c.PeerPublicKey
PresharedKeyLine(c) == KeyEq("PresharedKey") \o c.PeerPresharedKey
EndpointLine(c) == KeyEq("Endpoint") \o c.Endpoint \o <<":">> \o FormatInt(c.EndpointPort)

\* what a line of a section has to become under the credentials c
ExpectedLine(b, c) ==
    IF b.section = "interface" /\ LineKey(b.line) = "PrivateKey" THEN PrivateKeyLine(c)
    ELSE IF b.section = "peer" /\ LineKey(b.line) = "PublicKey" THEN PublicKeyLine(c)
    ELSE IF b.section = "peer" /\ LineKey(b.line) = "Endpoint" THEN EndpointLine(c)
    ELSE IF b.section = "peer" /\ LineKey(b.line) = "PresharedKey" /\ c.PeerPresharedKey # <<>>
    THEN PresharedKeyLine(c)
    ELSE b.line

ExpectedBody(text, c) ==
    [i \in 1..Len(SectionBody(text)) |-> ExpectedLine(SectionBody(text)[i], c)]

BodyLines(text) == [i \in 1..Len(SectionBody(text)) |-> SectionBody(text)[i].line]

NotSystemLine(line) == ~IsBlank(line) /\ LineKey(line) \notin SystemKeys

\* the non-blank lines of a text that carry no system-owned key, in order
OperatorLines(text) == SelectSeq(Split(text), NotSystemLine)

-----------------------------------------------------------------------------
(* Claims about mergeWithExistingConfig (MergeSpec) *)

\* C1: the lines of the [Interface] and [Peer] sections come out of the merge
\* in their order, the system-owned ones (PrivateKey in [Interface]; PublicKey,
\* Endpoint and, when a pre-shared key is supplied, PresharedKey in [Peer])
\* replaced by the credentials' lines and every other one unchanged; the only
\* line that may follow them is the appended keepalive line.
C1_MergeReplacesExactlySystemOwned ==
    called # "none" =>
        \/ BodyLines(merged) = ExpectedBody(existingConfig, wgConfig)
        \/ BodyLines(merged) = Append(ExpectedBody(existingConfig, wgConfig), KeepaliveLine)

C1_Witness ==
    /\ called = "merge"
    /\ existingConfig = JoinLines(<<PeerHeader, OldEndpointLine, AddressLine>>, 1)
    /\ wgConfig = FullCredentials
    /\ BodyLines(merged) = <<EndpointLine(wgConfig), AddressLine, KeepaliveLine>>

\* C2: every non-blank line of the existing text that carries no system-owned
\* key, wherever it stands, is in the merge output, unchanged and in order
\* (the output has no other such line than the appended keepalive line).
C2_NoOperatorLineDropped ==
    called # "none" =>
        \/ OperatorLines(merged) = OperatorLines(existingConfig)
        \/ OperatorLines(merged) = Append(OperatorLines(existingConfig), KeepaliveLine)

\* C3: merging the merge result again with the same credentials returns it
\* byte for byte.
C3_MergeIdempotent ==
    called = "remerge" => remerged = merged

-----------------------------------------------------------------------------
(* Claims about buildWireGuardConfig (BuildSpec) *)

\* C5: the render is empty whenever the private key, the local public key, the
\* peer public key or the endpoint is empty, and otherwise is a body whose
\* [Interface] has the non-empty PrivateKey and whose [Peer] has the non-empty
\* PublicKey and Endpoint of the credentials; nothing in between is returned.
C5_RenderAllOrNothing ==
    called = "build" =>
        /\ (   wgConfig.PrivateKey = <<>> \/ wgConfig.PublicKey = <<>>
            \/ wgConfig.PeerPublicKey = <<>> \/ wgConfig.Endpoint = <<>>) => rendered = <<>>
        /\ rendered # <<>> =>
              /\ wgConfig.PrivateKey # <<>>
              /\ wgConfig.PeerPublicKey # <<>>
              /\ wgConfig.Endpoint # <<>>
              /\ SectionValues(rendered, "interface", "PrivateKey") = { PrivateKeyLine(wgConfig) }
              /\ SectionValues(rendered, "peer", "PublicKey") = { PublicKeyLine(wgConfig) }
              /\ SectionValues(rendered, "peer", "Endpoint") = { EndpointLine(wgConfig) }

C5_Witness ==
    /\ called = "build"
    /\ wgConfig.PublicKey = <<>>
    /\ wgConfig.PrivateKey # <<>> /\ wgConfig.PeerPublicKey # <<>> /\ wgConfig.Endpoint # <<>>
    /\ rendered = <<>>

-----------------------------------------------------------------------------
(* Claims about Manager.UpdateConfig and the loop (Spec) *)

\* the credentials lack a field the render requires
LacksRequiredField(c) ==
    c.PrivateKey = <<>> \/ c.PublicKey = <<>> \/ c.PeerPublicKey = <<>> \/ c.Endpoint = <<>>

\* C4: after an UpdateConfig that returned success on a pre-existing, non-empty
\* tunnel file, the file's [Interface] private key and its [Peer] public key
\* and endpoint (and pre-shared key, when the credentials carry one) are those
\* of the credentials, whatever the file held before (stated here for the
\* cycles whose credentials are complete).
C4_SystemFieldsOverwritten ==
    (/\ pc = "apply: status"
     /\ hasExistingConfig /\ existingConfig # <<>>
     /\ ~LacksRequiredField(wgConfig)) =>
        /\ SectionValues(configFile.content, "interface", "PrivateKey") = { PrivateKeyLine(wgConfig) }
        /\ SectionValues(configFile.content, "peer", "PublicKey") = { PublicKeyLine(wgConfig) }
        /\ SectionValues(configFile.content, "peer", "Endpoint") = { EndpointLine(wgConfig) }
        /\ wgConfig.PeerPresharedKey # <<>> =>
              SectionValues(configFile.content, "peer", "PresharedKey") = { PresharedKeyLine(wgConfig) }

\* C6: an UpdateConfig called with credentials that lack a required field
\* returns an error: the loop leaves it by counting a failure and sleeping,
\* never by going on to ApplyWireGuardConfig.
C6_EmptyRenderIsFailure ==
    [][(pc \in UpdateSteps /\ LacksRequiredField(wgConfig) /\ pc' \notin UpdateSteps) =>
          /\ err'.step = "update"
          /\ consecutiveFailures' = consecutiveFailures + 1
          /\ pc' = "sleep"]_vars

\* C7: a step changes the tunnel file or starts/restarts the service only in a
\* cycle whose fetched credentials have private key, peer public key and
\* endpoint.
C7_NoPartialCredentialsApplied ==
    [][(configFile' # configFile \/ (serviceAction' # serviceAction /\ serviceAction' # "none")) =>
          /\ wgConfig.PrivateKey # <<>>
          /\ wgConfig.PeerPublicKey # <<>>
          /\ wgConfig.Endpoint # <<>>]_vars

C9_FailureCountsSleepsRestarts ==
    [][/\ (err' # err /\ err'.step \in {"auth", "fetch", "update", "apply"}) =>
              /\ consecutiveFailures' = consecutiveFailures + 1
              /\ sleepMinutes' = 1
              /\ pc' = "sleep"
       /\ (pc = "sleep" /\ pc' # pc) => pc' = "top"
       /\ (pc = "top" /\ pc' # pc) => pc' \in {"backoff", "auth"}
       /\ (pc = "backoff" /\ pc' # pc) => pc' = "auth"]_vars

C9_Witness ==
    /\ pc = "sleep"
    /\ err.step = "apply"
    /\ consecutiveFailures = 2
    /\ sleepMinutes = 1

\* C10: a status query that returns an error in CheckingService counts as a
\* failed step: consecutiveFailures grows by one and the loop sleeps 1 minute.
C10_StatusQueryErrorCounts ==
    [][(pc = "check" /\ err'.step = "check") =>
          /\ consecutiveFailures' = consecutiveFailures + 1
          /\ sleepMinutes' = 1]_vars

-----------------------------------------------------------------------------
(* Claims about the failure policy of the loop (BackoffSpec) *)

\* C11: a cycle that begins with FailureState >= 5 sleeps
\* min((FailureState - 5 + 1) * 2, 30) minutes, so 2, 4 and 6 minutes for the
\* counts 5, 6 and 7 and never more than 30 minutes, and when the sleep is over
\* FailureState is 3 as Authenticating is entered; with fewer failures
\* Authenticating is entered at once and the count stays
C11_BackoffPolicy ==
    [][/\ (pc = "top" /\ pc' # pc /\ consecutiveFailures >= 5) =>
              /\ pc' = "backoff"
              /\ sleepMinutes' = IF (consecutiveFailures - 5 + 1) * 2 < 30
                                 THEN (consecutiveFailures - 5 + 1) * 2
                                 ELSE 30
              /\ sleepLeft' = sleepMinutes' * 60
              /\ sleepMinutes' <= 30
              /\ consecutiveFailures = 5 => sleepMinutes' = 2
              /\ consecutiveFailures = 6 => sleepMinutes' = 4
              /\ consecutiveFailures = 7 => sleepMinutes' = 6
              /\ consecutiveFailures' = consecutiveFailures
       /\ (pc = "backoff" /\ pc' # pc) =>
              /\ sleepLeft = 0
              /\ pc' = "auth"
              /\ consecutiveFailures' = 3
       /\ (pc = "top" /\ pc' # pc /\ consecutiveFailures < 5) =>
              /\ pc' = "auth"
              /\ consecutiveFailures' = consecutiveFailures]_vars

\* the 6-minute sleep that seven failures in a row lead to is over
C11_Witness ==
    /\ pc = "backoff"
    /\ consecutiveFailures = 7
    /\ sleepMinutes = 6
    /\ sleepLeft = 0

-----------------------------------------------------------------------------
(* Claims about the end of a cycle (RunSpec, Spec) *)

\* C12: the cycle whose ApplyingService succeeds sets FailureState to 0,
\* schedules one registration refresh, due after half the configured refresh
\* interval and carrying the cycle's device token, and sleeps the whole
\* interval before the loop goes on; nothing else schedules a refresh and
\* nothing else brings FailureState to 0
C12_SuccessfulCycle ==
    [][/\ (pc = "apply: verify" /\ pc' = "sleep" /\ err' = NoError) =>
              /\ consecutiveFailures' = 0
              /\ Len(refreshTimers') = Len(refreshTimers) + 1
              /\ SubSeq(refreshTimers', 1, Len(refreshTimers)) = refreshTimers
              /\ refreshTimers'[Len(refreshTimers')].phase = "pending"
              /\ 2 * refreshTimers'[Len(refreshTimers')].dueIn = refreshIntervalMinutes * 60
              /\ refreshTimers'[Len(refreshTimers')].token = deviceToken
              /\ sleepMinutes' = refreshIntervalMinutes
              /\ sleepLeft' = refreshIntervalMinutes * 60
       /\ Len(refreshTimers') > Len(refreshTimers) =>
              (pc = "apply: verify" /\ pc' = "sleep" /\ err' = NoError)
       /\ (consecutiveFailures' = 0 /\ consecutiveFailures # 0) =>
              (pc = "apply: verify" /\ pc' = "sleep" /\ err' = NoError)
       /\ (pc = "sleep" /\ pc' \notin { "sleep", "exited" }) =>
              (sleepLeft = 0 /\ pc' = "top")]_vars

\* a cycle has succeeded under a refresh interval of one minute: the loop
\* begins its 60-second sleep and the refresh is due in 30 seconds
C12_Witness ==
    /\ pc = "sleep"
    /\ err = NoError
    /\ refreshIntervalMinutes = 1
    /\ sleepMinutes = 1
    /\ sleepLeft = 60
    /\ consecutiveFailures = 0
    /\ Len(refreshTimers) = 1
    /\ refreshTimers[1] = [phase |-> "pending", dueIn |-> 30, token |-> LoopToken]

\* C13: when CheckingService finds the tunnel service not running, the loop
\* sleeps 5 minutes and goes back to the head of the loop and Authenticating;
\* from the start of that cycle to the end of the sleep the tunnel file is not
\* written and neither start nor restart is invoked
C13_InactiveServiceWaits ==
    [][/\ (pc = "check" /\ pc' # pc /\ serviceState # "active") =>
              /\ pc' = "sleep"
              /\ sleepMinutes' = 5
              /\ sleepLeft' = 5 * 60
       /\ pc \in { "top", "backoff", "auth", "fetch", "check" } =>
              /\ configFile' = configFile
              /\ serviceAction = "none" /\ serviceAction' = "none"
       /\ (pc = "sleep" /\ sleepMinutes = 5) =>
              /\ configFile' = configFile
              /\ serviceAction = "none" /\ serviceAction' = "none"
              /\ pc' # pc => (sleepLeft = 0 /\ pc' = "top")
       /\ (pc = "top" /\ pc' # pc) => pc' \in { "backoff", "auth" }
       /\ (pc = "backoff" /\ pc' # pc) => pc' = "auth"]_vars

\* the 5-minute sleep is over with the tunnel file as the cycle found it
C13_Witness ==
    /\ pc = "sleep"
    /\ sleepMinutes = 5
    /\ sleepLeft = 0
    /\ serviceState = "inactive"
    /\ serviceAction = "none"
    /\ configFile = File(DummyConfig)

-----------------------------------------------------------------------------
(* Claims about shutdown (RunSpec, FairRunSpec) *)

\* the statements inside UpdateConfig after it has begun and inside
\* ApplyWireGuardConfig after its first status query
InsideStep ==
    { "update: stat", "update: read", "update: backup", "update: open", "update: write",
      "apply: restart", "apply: start", "apply: verify" }

\* C14: the process stops only between steps: it never exits while
\* UpdateConfig or ApplyWireGuardConfig is under way, so not between the backup
\* and the completed write of the tunnel file nor between the write and the end
\* of the service restart
C14_ExitOnlyBetweenSteps ==
    [][(pc' = "exited" /\ pc # "exited") => pc \notin InsideStep]_vars

\* C15: a signal that has arrived leads to the exit of the process, whatever
\* the loop is doing
C15_SignalLeadsToShutdown == (sigs > 0) ~> (pc = "exited")

\* the process has exited while the loop was in its interval sleep
C15_Witness ==
    /\ pc = "exited"
    /\ listener = "finished"
    /\ sleepMinutes = refreshIntervalMinutes
    /\ sleepLeft > 0

-----------------------------------------------------------------------------
(* Claims about the registration refresh and the goroutines (RunSpec) *)

\* the phases of the scheduled refreshes: a change of them that is neither a
\* new timer nor the end of the process is a step of a refresh callback
RefreshPhases == [i \in DOMAIN refreshTimers |-> refreshTimers[i].phase]

RefreshCallbackStep ==
    /\ RefreshPhases' # RefreshPhases
    /\ Len(refreshTimers') <= Len(refreshTimers)
    /\ pc' # "exited"

\* C17: the scheduled refresh is fire-and-forget: its start and its end,
\* successful or not, leave FailureState, the statement the loop is at, its
\* error and the length and the rest of its sleep as they are, and the loop
\* leaves a sleep that is over whatever the refresh is doing
C17_RefreshFireAndForget ==
    /\ [][RefreshCallbackStep =>
              UNCHANGED <<pc, consecutiveFailures, err, sleepMinutes, sleepLeft>>]_vars
    /\ []((pc = "sleep" /\ sleepLeft = 0) => ENABLED Wake)
    /\ []((pc = "backoff" /\ sleepLeft = 0) => ENABLED LeaveBackoff)

\* the loop is at Authenticating of the next cycle while the refresh request
\* of the last cycle is still under way
C17_Witness ==
    /\ pc = "auth"
    /\ consecutiveFailures = 0
    /\ Len(refreshTimers) = 1
    /\ refreshTimers[1].phase = "running"

\* C18: no two goroutines access a variable at the same time with one of them
\* writing it; the cached token and its expiry change only in the
\* AuthenticateDevice call of the loop, the failure counter only in a step of
\* the loop, and no step of a refresh callback or of the signal goroutine
\* changes them
C18_NoConcurrentMutation ==
    /\ [](\A i, j \in DOMAIN accesses :
            i # j => accesses[i].writes \cap (accesses[j].reads \cup accesses[j].writes) = {})
    /\ [][/\ (accessToken' # accessToken \/ tokenExpiresIn' > tokenExpiresIn) =>
                 (pc = "auth" /\ pc' # pc)
          /\ consecutiveFailures' # consecutiveFailures => (pc' # pc /\ pc' # "exited")
          /\ (RefreshCallbackStep \/ listener' # listener) =>
                 UNCHANGED <<accessToken, consecutiveFailures>>]_vars

\* AuthenticateDevice is about to read and store the cached token while a
\* refresh callback runs and the signal goroutine is about to send on done
C18_Witness ==
    /\ pc = "auth"
    /\ accessToken # <<>>
    /\ listener = "notifying"
    /\ \E i \in DOMAIN refreshTimers : refreshTimers[i].phase = "running"

-----------------------------------------------------------------------------
(* Claims about the device token cache (AuthSpec, FairAuthSpec) *)

\* a step in which AuthenticateDevice has been called and has returned (a call
\* that changes nothing is no step)
AuthenticateDeviceReturns ==
    \/ <<registration, deviceToken, err, accessToken>>' #
           <<registration, deviceToken, err, accessToken>>
    \/ tokenExpiresIn' > tokenExpiresIn

\* C19: AuthenticateDevice makes no registration call exactly when a token is
\* cached and the time is strictly before its expiry, and then returns the
\* cached token and leaves the cache as it is; otherwise it makes the call, and
\* when the call succeeds the cached token becomes the token of the response,
\* the expiry becomes the expiry of the response if that parses, and the new
\* token is returned
C19_CacheUsedOnlyBeforeExpiry ==
    [][AuthenticateDeviceReturns =>
          /\ registration' = NoRegistration <=> (accessToken # <<>> /\ tokenExpiresIn > 0)
          /\ registration' = NoRegistration =>
                 /\ deviceToken' = accessToken
                 /\ err' = NoError
                 /\ UNCHANGED <<accessToken, tokenExpiresIn>>
          /\ registration'.kind = "ok" =>
                 /\ accessToken' = registration'.token
                 /\ registration'.expiryParses => tokenExpiresIn' = registration'.expiresIn
                 /\ deviceToken' = registration'.token
                 /\ err' = NoError
          /\ registration'.kind \notin { "none", "ok" } =>
                 /\ deviceToken' = <<>>
                 /\ err' # NoError]_vars

\* a call has returned the cached token half an hour before its expiry
C19_Witness ==
    /\ registration = NoRegistration
    /\ accessToken = OtherToken
    /\ deviceToken = OtherToken
    /\ tokenExpiresIn = 30 * 60
    /\ err = NoError

\* C20: a registration that succeeds with an expiry that does not parse
\* caches the token for one hour from the call; the lifetime of a cached token
\* is bounded (by the longest expiry the service has given, two hours here), so
\* a valid cached token ceases to be valid as time passes, and a call made when
\* the token is not valid performs a registration call
C20_CachedTokenExpires ==
    /\ [][AuthenticateDeviceReturns =>
              /\ (registration'.kind = "ok" /\ ~registration'.expiryParses) =>
                     tokenExpiresIn' = 60 * 60
              /\ ~(accessToken # <<>> /\ tokenExpiresIn > 0) =>
                     registration' # NoRegistration]_vars
    /\ [](tokenExpiresIn <= 2 * 60 * 60)
    /\ (accessToken # <<>> /\ tokenExpiresIn > 0) ~> (tokenExpiresIn = 0)

\* the token of a registration whose expiry did not parse is cached for an hour
C20_Witness ==
    /\ registration = RegisteredBadExpiry(LoopToken)
    /\ accessToken = LoopToken
    /\ deviceToken = LoopToken
    /\ tokenExpiresIn = 60 * 60

-----------------------------------------------------------------------------
(* Claims about the service client *)

\* C21: a call of ApplyWireGuardConfig has invoked exactly one service action
\* when it returns, restart if the first status query found the service active
\* and start in every other case; it returns nil only when the second query
\* reports the service active and an error when that query does not; it never
\* invokes stop.
C21_ApplyOneActionThenVerify ==
    [][/\ (pc \in ApplySteps /\ pc' \notin ApplySteps) =>
              serviceAction' \in { "restart", "start" }
       /\ (pc = "apply: status" /\ pc' # pc) =>
              pc' = IF serviceState = "active" THEN "apply: restart" ELSE "apply: start"
       /\ (pc = "apply: verify" /\ pc' # pc) =>
              (err' = NoError <=> serviceState = "active")
       /\ serviceAction' # "stop"]_vars

\* what the service manager answers: its output without the white space
Answer(output) == SelectSeq(output, LAMBDA tok : ~IsSpace(tok))

\* C22: for the answers "inactive" and "unknown" isWireGuardRunning returns
\* (false, nil); it returns true only for the answer "active"; it never
\* returns true together with an error.
C22_StatusQueryResult ==
    called = "query" =>
        /\ Answer(cmdResult.output) \in { Str("inactive"), Str("unknown") } =>
               isRunning = [running |-> FALSE, err |-> FALSE]
        /\ isRunning.running => Answer(cmdResult.output) = Str("active")
        /\ ~(isRunning.running /\ isRunning.err)

\* the query has answered "unknown" with a non-zero exit status
C22_Witness ==
    /\ called = "query"
    /\ cmdResult = [output |-> <<"unknown", NL>>, exitError |-> TRUE]
    /\ isRunning = [running |-> FALSE, err |-> FALSE]

-----------------------------------------------------------------------------
(* Claims about LoadConfig (LoadSpec) *)

\* the settings of the config file that LoadConfig has read
SettingsRead ==
    LET found == findConfigFile(environ.files, 1)
    IN  IF found = <<>> THEN <<>> ELSE environ.files[found].settings

\* the value of a key by the precedence environment variable (one set to a
\* value that is not empty), file, default
ByPrecedence(path) ==
    IF EnvIsSet(environ.env, UnderscoreName(path)) THEN environ.env[UnderscoreName(path)]
    ELSE IF path \in DOMAIN SettingsRead THEN SettingsRead[path]
    ELSE IF path \in DOMAIN Defaults THEN Defaults[path]
    ELSE <<>>

\* C29: the configuration LoadConfig returns has for every key the value of
\* the environment variable CFWG_<KEY PATH IN UPPER CASE, JOINED WITH _> when
\* that is set, else the value of the config file, else the default.
C29_EnvironmentOverFileOverDefault ==
    (called = "load" /\ err = NoError) =>
        /\ \A k \in StringKeys : cfg[k] = ByPrecedence(k)
        /\ refreshIntervalMinutes = Atoi(ByPrecedence(RefreshIntervalKey))

\* C30: with a path given by --config, loadConfigWithFlags returns the
\* configuration of the file at that path (a key the file lacks has its
\* default); for the file CreateDefaultConfigFile writes that is no error,
\* refresh interval 60 and interface name wg0.
C30_GivenConfigFileIsRead ==
    (/\ called = "load with flags"
     /\ environ.configFileFlag \in DOMAIN environ.files
     /\ DOMAIN environ.env = { ConfigFileVariable }) =>
        LET given == environ.files[environ.configFileFlag] IN
        /\ given.readable =>
               /\ err = NoError
               /\ \A k \in StringKeys :
                      cfg[k] = IF k \in DOMAIN given.settings THEN given.settings[k]
                               ELSE IF k \in DOMAIN Defaults THEN Defaults[k]
                               ELSE <<>>
        /\ given = DefaultConfigFile =>
               /\ err = NoError
               /\ refreshIntervalMinutes = 60
               /\ cfg[InterfaceNameKey] = Str("wg0")

-----------------------------------------------------------------------------
(* Claims about the start command (StartSpec) *)

\* C23: once the configuration is loaded with an empty client id, client
\* secret or tunnel file path, the start command never gets beyond its
\* startup steps: it ends with exit status 1, the loop does not begin, nothing
\* is written to the tunnel file and no service action is invoked.
C23_StartupValidation ==
    (cfg[ClientIDKey] = <<>> \/ cfg[ClientSecretKey] = <<>> \/ cfg[ConfigPathKey] = <<>>) =>
        /\ pc \in { "not started", "exited" } \cup StartSteps
        /\ pc = "exited" => exitCode = "1"
        /\ configFile = NoFile
        /\ serviceAction = "none"

-----------------------------------------------------------------------------
(* Claims about whole cycles (FairCycleSpec) *)

\* C24: started with no tunnel file and the service not running, and with
\* authentication and the fetch succeeding (and no signal), the loop comes to
\* write the rendered configuration to the tunnel file and to start the
\* service.  The service is not running as long as the program has not
\* started it.
C24_FreshInstall ==
    (/\ configFile = NoFile
     /\ serviceState = "inactive"
     /\ [](serviceAction # "start" => serviceState # "active")
     /\ [](err.step \notin { "auth", "fetch" })
     /\ [](sigs = 0))
    => <>(/\ configFile = File(buildWireGuardConfig(FullCredentials))
          /\ serviceAction = "start")

-----------------------------------------------------------------------------
(* Claims about the status command (StatusSpec) *)

-----------------------------------------------------------------------------
(* Claims about the keepalive directive (MergeSpec) *)

\* the keepalive directives of a text: its lines with the key PersistentKeepalive
KeepaliveDirectives(text) ==
    SelectSeq(Split(text), LAMBDA line : LineKey(line) = "PersistentKeepalive")

\* C26: merging a text that has no PersistentKeepalive key line gives a text
\* with exactly one such line, `PersistentKeepalive = 25`, at its end; merging
\* a text that has one adds none.
C26_KeepaliveAppendedOnce ==
    called \in { "merge", "remerge" } =>
        IF KeepaliveDirectives(existingConfig) = <<>>
        THEN /\ KeepaliveDirectives(merged) = <<KeepaliveLine>>
             /\ Len(merged) > Len(KeepaliveLine)
             /\ SubSeq(merged, Len(merged) - Len(KeepaliveLine), Len(merged)) =
                    KeepaliveLine \o <<NL>>
        ELSE Len(KeepaliveDirectives(merged)) <= Len(KeepaliveDirectives(existingConfig))

-----------------------------------------------------------------------------
(* Claims about the rewrite of the tunnel file (Spec) *)

\* C27: at every step of an UpdateConfig call, and after it has returned, with
\* an error or without, the tunnel file is either what it was when the call
\* began or the complete new text; never empty, never a part of the text.
C27_AtomicRewrite ==
    (pc \in UpdateSteps \cup { "apply: status" } \/ err.step = "update") =>
        configFile \in { targetAtCall, File(configContent) }

-----------------------------------------------------------------------------
(* Claims about the permission bits of the files (Spec) *)

\* C28: when UpdateConfig has returned without an error, the tunnel file and
\* the backup that the call made are readable and writable by the owner only,
\* whatever the mode of the tunnel file was when the call began.
C28_OwnerOnlyAfterUpdate ==
    pc = "apply: status" =>
        /\ configMode = "0600"
        /\ backupFile.exists => backupMode = "0600"

-----------------------------------------------------------------------------
(* Claims about the order of the steps of a cycle (Spec) *)

\* C31: the tunnel file is written only in a cycle whose Authenticating and
\* FetchingCredentials succeeded and whose CheckingService found the service
\* active, and from the credentials that cycle fetched: the steps are entered
\* in that order only, wgConfig is set by the fetch of the cycle alone and the
\* text written is made from it. The service is started or restarted only
\* in ApplyingService, which is entered only from the completed write.
C31_StepOrder ==
    [][/\ configFile' # configFile =>
              /\ pc \in { "update: open", "update: write" }
              /\ err = NoError
              /\ deviceToken # <<>>
              /\ wgConfig \in FetchedCredentials
       /\ wgConfig' # wgConfig =>
              \/ pc = "fetch" /\ wgConfig' \in FetchedCredentials
              \/ pc = "sleep" /\ pc' = "top" /\ wgConfig' = NoCredentials
       /\ (pc' = "fetch" /\ pc # "fetch") =>
              (pc = "auth" /\ err' = NoError /\ deviceToken' # <<>>)
       /\ (pc' = "check" /\ pc # "check") =>
              (pc = "fetch" /\ err' = NoError /\ wgConfig' \in FetchedCredentials)
       /\ (pc' \in UpdateSteps /\ pc \notin UpdateSteps) =>
              (pc = "check" /\ serviceState = "active")
       /\ (pc' \in ApplySteps /\ pc \notin ApplySteps) =>
              (pc = "update: write" /\ configFile' = File(configContent))
       /\ (serviceAction' # serviceAction /\ serviceAction' # "none") =>
              pc \in { "apply: restart", "apply: start" }]_vars

\* the service has been restarted in the cycle that fetched the rotated
\* credentials and wrote them into the imported dummy configuration
C31_Witness ==
    /\ pc = "apply: verify"
    /\ serviceAction = "restart"
    /\ wgConfig = RotatedCredentials
    /\ targetAtCall = File(DummyConfig)
    /\ configFile = File(mergeWithExistingConfig(DummyConfig, RotatedCredentials))

-----------------------------------------------------------------------------
(* Claims about recovery (FairCycleSpec) *)

\* the loop is in the sleep that ends a cycle in which every step succeeded
CycleSucceeded ==
    /\ pc = "sleep"
    /\ err = NoError
    /\ serviceAction \in { "start", "restart" }
    /\ sleepMinutes = refreshIntervalMinutes

-----------------------------------------------------------------------------
(* Claims about the range of FailureState (Spec) *)

\* C33: FailureState is always between 0 and 5. It is 5 only from the failed
\* step that made it 5 to the end of the Backoff that follows (the 1-minute
\* sleep, the head of the loop, the backoff sleep), and 3 when the Backoff is
\* left; so every Backoff sleep is one of 2 minutes.
C33_FailureStateRange ==
    /\ [](/\ consecutiveFailures \in 0..5
          /\ consecutiveFailures = 5 => pc \in { "sleep", "top", "backoff" }
          /\ pc = "backoff" =>
                 (consecutiveFailures = 5 /\ sleepMinutes = 2 /\ sleepLeft <= 2 * 60))
    /\ [][/\ (consecutiveFailures = 5 /\ pc = "top" /\ pc' # pc) => pc' = "backoff"
          /\ (pc = "backoff" /\ pc' # pc) => consecutiveFailures' = 3
          /\ consecutiveFailures' <= consecutiveFailures + 1]_vars

\* the 2-minute sleep of the Backoff after the fifth failure is over
C33_Witness ==
    /\ pc = "backoff"
    /\ consecutiveFailures = 5
    /\ sleepMinutes = 2
    /\ sleepLeft = 0
    /\ err = NoError

\* C34: the branch of CheckingService for a service that is not running
\* leaves FailureState as it is and sleeps; FailureState grows only by a
\* failed Authenticating, FetchingCredentials, UpdatingConfig or
\* ApplyingService, and the Backoff is entered only with FailureState at 5 or
\* more, so never because of a service that stays inactive.
C34_InactiveLeavesFailureState ==
    [][/\ (pc = "check" /\ pc' # pc /\ serviceState # "active") =>
              /\ consecutiveFailures' = consecutiveFailures
              /\ pc' = "sleep"
       /\ pc = "check" => consecutiveFailures' = consecutiveFailures
       /\ consecutiveFailures' > consecutiveFailures =>
              /\ pc \in { "auth", "fetch" } \cup UpdateSteps \cup ApplySteps
              /\ err'.step \in { "auth", "fetch", "update", "apply" }
       /\ (pc' = "backoff" /\ pc # "backoff") => consecutiveFailures >= 5]_vars

\* the service was found inactive with four failures counted: the loop is in
\* the 5-minute sleep with the count as it was
C34_Witness ==
    /\ pc = "sleep"
    /\ sleepMinutes = 5
    /\ serviceState = "inactive"
    /\ err = NoError
    /\ consecutiveFailures = 4

-----------------------------------------------------------------------------
(* Claims about the pace of the loop (StartSpec) *)

\* C35: with every configuration that passes the checks of the startup, the
\* loop sleeps at least one minute between two Authenticating steps: it comes
\* to Authenticating from the head of the loop only, to the head of the loop
\* from a sleep that is over only (and from the startup), and every sleep it
\* begins is one of a minute or more.
C35_NeverSpins ==
    [][/\ (pc' = "sleep" /\ pc # "sleep") => (sleepMinutes' >= 1 /\ sleepLeft' >= 60)
       /\ (pc = "sleep" /\ pc' # pc) => (pc' = "top" /\ sleepLeft = 0)
       /\ (pc' = "top" /\ pc # "top") => pc \in { "sleep", "start: loop" }
       /\ (pc' = "auth" /\ pc # "auth") => pc \in { "top", "backoff" }]_vars

-----------------------------------------------------------------------------
(* Claims about failed authentication (AuthSpec) *)

\* C36: a call of AuthenticateDevice whose registration call fails (the
\* request cannot be sent, the response cannot be decoded, or the service
\* reports a failure) leaves the cached token and its expiry as they were and
\* returns an empty token with an error.
C36_FailedAuthKeepsCache ==
    [][(AuthenticateDeviceReturns /\ registration'.kind \notin { "none", "ok" }) =>
          /\ accessToken' = accessToken
          /\ tokenExpiresIn' = tokenExpiresIn
          /\ deviceToken' = <<>>
          /\ err' = Error("auth", registration'.kind)]_vars

\* the service has rejected the registration made after the cached token
\* expired: the expired token is still in the cache
C36_Witness ==
    /\ registration = Rejected
    /\ accessToken = LoopToken
    /\ tokenExpiresIn = 0
    /\ deviceToken = <<>>
    /\ err = Error("auth", "device authentication failed")

-----------------------------------------------------------------------------
(* Claims about ApplyWireGuardConfig (Spec) *)

\* the error ApplyWireGuardConfig returns when its first status query fails
StatusQueryFailed == Error("apply", "failed to check WireGuard service status")

\* C37: when the first status query of ApplyWireGuardConfig returns an error,
\* ApplyWireGuardConfig returns an error at once: neither start nor restart is
\* invoked by that call and the state of the service is as the call found it.
C37_ApplyStopsOnQueryError ==
    /\ [][(/\ pc = "apply: status"
            /\ pc' # pc
            /\ isWireGuardRunning(systemctlIsActive(serviceState)).err) =>
              /\ err' = StatusQueryFailed
              /\ pc' = "sleep"
              /\ UNCHANGED <<serviceState, serviceAction>>]_vars
    /\ [](err = StatusQueryFailed => (pc = "sleep" /\ serviceAction = "none"))

\* the service failed after CheckingService had found it active: the call
\* has returned the error and the service is still failed, not started
C37_Witness ==
    /\ pc = "sleep"
    /\ err = StatusQueryFailed
    /\ serviceState = "failed"
    /\ serviceAction = "none"
    /\ sleepLeft = 60

-----------------------------------------------------------------------------
(* Claims about writing and restarting without a change (Spec) *)

====
